---- MODULE Spec2Model ----
(***************************************************************************)
(* Verification model of the concurrency exercises of the repository.      *)
(*                                                                         *)
(* p09_threadpool (Spec, FairSpec): a fixed-size pool of worker threads    *)
(* that share one mpsc receiver behind a mutex, a caller thread that       *)
(* submits jobs through the pool's sender, and the Drop implementation     *)
(* that closes the channel and joins the workers.                          *)
(* p05_arc_counter (CounterSpec): threads incrementing a shared counter,   *)
(* once as an AtomicU64 and once as a Mutex<u64>.                          *)
(* p06_mutex_basics (LogSpec, LongLockSpec, LongLockFairSpec): threads     *)
(* appending to a Log shared as Arc<Mutex<Log>>.                           *)
(* p07_rwlock_cache (CacheSpec, WritersSpec, TrackedSpec): a HashMap       *)
(* cache, alone, shared as Arc<RwLock<Cache>>, and as TrackedCache.        *)
(* p08_deadlock_lab (LabSpec, LabFairSpec): the lock-order, recursive-lock *)
(* and reader/writer scenarios.                                            *)
(* p10_event_bus (BusSpec): subscribe and publish on an EventBus.          *)
(*                                                                         *)
(* Every specification runs one program; the variables of the other        *)
(* programs keep their initial values.                                     *)
(***************************************************************************)
EXTENDS Naturals, Integers, Sequences, FiniteSets, TLC

\* Bounds of the model.
MaxSize == 2      \* largest pool size passed to ThreadPool::new
MaxJobs == 3      \* largest number of execute calls made by the caller
MaxThreads == 2   \* largest number of threads of the counter and log programs
MaxReps == 2      \* largest number of loop iterations of each such thread
MaxKeys == 2      \* number of distinct keys a caller of Cache uses
MaxVals == 2      \* number of distinct values a caller of Cache uses
MaxOps == 3       \* largest number of insert calls made on one Cache
MaxHandlers == 3  \* largest number of handlers subscribed to an EventBus
MaxEvents == 3    \* largest number of events published on an EventBus

VARIABLES
    size,        \* ThreadPool::new's argument
    sender,      \* ThreadPool.sender: TRUE is Some(sender), FALSE is None
    queue,       \* the mpsc channel's buffered messages (job ids, FIFO)
    kind,        \* kind[j]: what the closure of job j does: "ok", "fault", "none" (not submitted)
    submitted,   \* number of execute calls made so far (job ids are 1..submitted)
    lock,        \* the Mutex around the receiver: 0 is unlocked, w is held by worker w
    wpc,         \* wpc[w]: position of worker w's thread in its loop (one entry per spawned worker)
    message,     \* message[w]: the job worker w received (0: none / Err)
    counter,     \* the shared AtomicUsize the jobs increment
    runs,        \* runs[j]: number of times job j's closure was invoked to its end
    taken,       \* taken[j]: number of times recv handed job j to a worker
    discarded,   \* jobs dropped unexecuted (SendError, or receiver dropped with messages)
    mpc,         \* position of the thread that owns the pool
    joinIdx,     \* index of the worker the drop loop is at
    unwinding,   \* TRUE when the owner thread is already panicking when drop runs
    pending,     \* history: the jobs queued or held by a worker when drop began
    behind,      \* history: the jobs that were buffered in the channel when a job panicked
    rejected     \* TRUE when an execute call found the sender taken (None) and panicked

\* p05_arc_counter.
VARIABLES
    cThreads,    \* num_threads
    cReps,       \* increments_per_thread
    cFn,         \* the function that is running: "atomic", "mutex", or "done"
    cVal,        \* the shared counter (the AtomicU64, or the u64 in the Mutex)
    cLock,       \* the Mutex of counter_with_mutex: 0 unlocked, t held by thread t
    cpc,         \* cpc[t]: position of thread t
    cIter,       \* cIter[t]: iterations of the for loop thread t has completed
    cTmp,        \* cTmp[t]: the value thread t read for its `+= 1`
    cJoin,       \* index of the handle the join loop is at
    atomicResult,  \* what counter_with_atomic returned (0 until it returns)
    mutexResult    \* what counter_with_mutex returned (0 until it returns)

\* p06_mutex_basics.
VARIABLES
    lThreads,    \* number of threads spawned
    lReps,       \* number of messages each thread appends
    entries,     \* Log.entries: a sequence of <<thread_id, i>>
    logLock,     \* the Mutex around the Log: 0 unlocked, t held by thread t
    lpc,         \* lpc[t]: position of thread t
    lIter,       \* lIter[t]: iterations of the for loop thread t has completed
    lTmp,        \* lTmp[t]: the length Vec::push read before writing the element
    lJoin,       \* index of the handle the join loop is at
    lDone,       \* TRUE once the main thread has read len() after the joins
    logLen       \* the len() the main thread read (0 until then)

\* p07_rwlock_cache.
VARIABLES
    kFn,         \* the program that is running: "basic", "writers", "tracked"
    data,        \* Cache.data: the HashMap, a function from the keys present to values
    inserted,    \* the insert calls made so far, in order: a sequence of <<key, value>>
    lastCall,    \* the last call on the Cache and what it returned
    kReaders,    \* number of reader threads
    kWriters,    \* number of writer threads
    kReads,      \* number of get calls each reader makes
    kWrites,     \* number of insert calls each writer makes
    kpc,         \* kpc[t]: position of thread t
    kIter,       \* kIter[t]: iterations of the for loop thread t has completed
    kTmp,        \* kTmp[t]: what thread t read for the read-modify-write it is in
    rwReaders,   \* the RwLock: the threads holding a read guard
    rwWriter,    \* the RwLock: 0, or the thread holding the write guard
    readCount,   \* TrackedCache.read_count
    writeCount,  \* TrackedCache.write_count
    kJoin,       \* number of handles the join loop has joined
    kDone,       \* TRUE once the main thread has read the final result
    kResult      \* the final result the main thread read: len(), or stats()

\* p08_deadlock_lab.
VARIABLES
    labFn,       \* the function that was called
    mainPc,      \* position of the calling thread: "spawn", "join", "run", "done"
    bpc,         \* scenario B: index of the next statement of the calling thread
    held,        \* scenario B: TRUE while the calling thread holds the mutex
    labVal,      \* scenario B: the counter; scenario C: the value in the RwLock
    tpc,         \* tpc[t]: position of spawned thread t
    tIter,       \* tIter[t]: iterations of the for loop thread t has completed
    locks,       \* scenario A: locks.A and locks.B, 0 or the thread holding the mutex
    labReaders,  \* scenario C: the threads holding a read guard
    labWriter,   \* scenario C: 0, or the thread holding the write guard
    nReaders,    \* scenario C: number of reader threads
    nReads,      \* scenario C: number of reads of each reader
    labJoin,     \* number of handles joined so far
    labResult    \* scenario C: the final value printed, <<>> before

\* p10_event_bus.
VARIABLES
    handlers,    \* EventBus.handlers: the Vec of subscribed handlers (handler ids)
    busPc,       \* the caller: "idle" between calls, "publishing" inside publish's loop
    pubIdx,      \* publish: index of the handler the loop is at
    event,       \* publish: the event being published
    published,   \* number of publish calls that have returned
    calls,       \* calls[h]: number of times handler h was invoked
    received,    \* received[h]: the events handler h was invoked with, in order
    subAt,       \* subAt[h]: the value of published when handler h was subscribed
    busCounter   \* the AtomicUsize every handler increments

poolVars == <<size, sender, queue, kind, submitted, lock, wpc, message, counter,
              runs, taken, discarded, mpc, joinIdx, unwinding, pending, behind, rejected>>
cntVars == <<cThreads, cReps, cFn, cVal, cLock, cpc, cIter, cTmp, cJoin,
             atomicResult, mutexResult>>
logVars == <<lThreads, lReps, entries, logLock, lpc, lIter, lTmp, lJoin, lDone, logLen>>

cacheVars == <<kFn, data, inserted, lastCall, kReaders, kWriters, kReads, kWrites,
               kpc, kIter, kTmp, rwReaders, rwWriter, readCount, writeCount,
               kJoin, kDone, kResult>>
\* The part of the Cache state the single-caller program does not use.
sharedCacheVars == <<kReaders, kWriters, kReads, kWrites, kpc, kIter, kTmp, rwReaders,
                     rwWriter, readCount, writeCount, kJoin, kDone, kResult>>
labVars == <<labFn, mainPc, bpc, held, labVal, tpc, tIter, locks, labReaders, labWriter,
             nReaders, nReads, labJoin, labResult>>
busVars == <<handlers, busPc, pubIdx, event, published, calls, received, subAt, busCounter>>

vars == <<poolVars, cntVars, logVars, cacheVars, labVars, busVars>>

\* What the actions of one program leave alone: the other programs' variables.
notPool == <<cntVars, logVars, cacheVars, labVars, busVars>>
notCnt == <<poolVars, logVars, cacheVars, labVars, busVars>>
notLog == <<poolVars, cntVars, cacheVars, labVars, busVars>>
notCache == <<poolVars, cntVars, logVars, labVars, busVars>>
notLab == <<poolVars, cntVars, logVars, cacheVars, busVars>>
notBus == <<poolVars, cntVars, logVars, cacheVars, labVars>>

\* The values a program's variables keep while another program runs.
PoolIdle ==
    /\ size = 0 /\ sender = FALSE /\ queue = <<>> /\ kind = <<>> /\ submitted = 0
    /\ lock = 0 /\ wpc = <<>> /\ message = <<>> /\ counter = 0 /\ runs = <<>>
    /\ taken = <<>> /\ discarded = {} /\ mpc = "idle" /\ joinIdx = 0
    /\ unwinding = FALSE /\ pending = {} /\ behind = {} /\ rejected = FALSE
CntIdle ==
    /\ cThreads = 0 /\ cReps = 0 /\ cFn = "idle" /\ cVal = 0 /\ cLock = 0
    /\ cpc = <<>> /\ cIter = <<>> /\ cTmp = <<>> /\ cJoin = 0
    /\ atomicResult = 0 /\ mutexResult = 0
LogIdle ==
    /\ lThreads = 0 /\ lReps = 0 /\ entries = <<>> /\ logLock = 0
    /\ lpc = <<>> /\ lIter = <<>> /\ lTmp = <<>> /\ lJoin = 0 /\ lDone = FALSE /\ logLen = 0
CacheIdle ==
    /\ kFn = "idle" /\ data = <<>> /\ inserted = <<>> /\ lastCall = <<"new">>
    /\ kReaders = 0 /\ kWriters = 0 /\ kReads = 0 /\ kWrites = 0
    /\ kpc = <<>> /\ kIter = <<>> /\ kTmp = <<>> /\ rwReaders = {} /\ rwWriter = 0
    /\ readCount = 0 /\ writeCount = 0 /\ kJoin = 0 /\ kDone = FALSE /\ kResult = <<>>
LabIdle ==
    /\ labFn = "idle" /\ mainPc = "idle" /\ bpc = 0 /\ held = FALSE /\ labVal = 0
    /\ tpc = <<>> /\ tIter = <<>> /\ locks = [A |-> 0, B |-> 0]
    /\ labReaders = {} /\ labWriter = 0 /\ nReaders = 0 /\ nReads = 0
    /\ labJoin = 0 /\ labResult = <<>>
BusIdle ==
    /\ handlers = <<>> /\ busPc = "off" /\ pubIdx = 0 /\ event = 0 /\ published = 0
    /\ calls = <<>> /\ received = <<>> /\ subAt = <<>> /\ busCounter = 0

\* The workers spawned so far; worker w of the model is the code's worker id w - 1.
Workers == DOMAIN wpc
WorkerId(w) == w - 1
Jobs == 1..MaxJobs

\* A worker thread has ended: it left the loop through break, or a job panicked in it.
Ended(w) == wpc[w] \in {"exited", "panicked"}

\* The Receiver lives in an Arc cloned into every worker closure (the local of
\* ThreadPool::new is dropped when new returns): it is alive while some worker
\* thread is.
ReceiverAlive == \E w \in Workers : ~Ended(w)

\* A double panic (a panic in drop while the owner thread unwinds) aborts the process.
Aborted == mpc = "aborted"

RangeOf(q) == {q[i] : i \in 1..Len(q)}

\* The jobs that were accepted and have not finished: buffered in the channel, or
\* received by a worker that has not yet run them to their end.
InFlight == RangeOf(queue) \cup ({message[w] : w \in Workers} \ {0})

\* Variant of RecvResult: a closed channel reports Err at once, dropping what is
\* still buffered.
RecvResultCloseFirst(q, senderAlive) ==
    IF ~senderAlive THEN "Err" ELSE IF q # <<>> THEN "Ok" ELSE "Block"

\* Variant of RecvResult: recv is never told that the sender is gone.
RecvResultNoClose(q, senderAlive) ==
    IF q # <<>> THEN "Ok" ELSE "Block"

\* Variant of RecvResult: recv gives up on an empty channel at once (try_recv).
RecvResultTry(q, senderAlive) ==
    IF q # <<>> THEN "Ok" ELSE "Err"

\* mpsc::Receiver::recv on a channel holding q, whose sender is alive or not:
\* buffered messages are delivered first, also after the sender is gone;
\* Err only when the buffer is empty and the sender is dropped; else it blocks.
RecvResult(q, senderAlive) ==
    IF q # <<>> THEN "Ok" ELSE IF ~senderAlive THEN "Err" ELSE "Block"

\* The state before ThreadPool::new(size) runs: nothing exists yet.
Init ==
    /\ size \in 0..MaxSize
    /\ sender = FALSE
    /\ queue = <<>>
    /\ kind = [j \in Jobs |-> "none"]
    /\ submitted = 0
    /\ lock = 0
    /\ wpc = <<>>
    /\ message = <<>>
    /\ counter = 0
    /\ runs = [j \in Jobs |-> 0]
    /\ taken = [j \in Jobs |-> 0]
    /\ discarded = {}
    /\ mpc = "new"
    /\ joinIdx = 0
    /\ unwinding = FALSE
    /\ pending = {}
    /\ behind = {}
    /\ rejected = FALSE
    /\ CntIdle /\ LogIdle /\ CacheIdle /\ LabIdle /\ BusIdle

----------------------------------------------------------------------------
\* Worker threads (Worker::new's closure); worker w exists when w \in Workers.

\* receiver.lock().unwrap(): blocks while another worker holds the mutex. No
\* thread panics while holding the guard, so the mutex is never poisoned.
Lock(w) ==
    /\ w \in Workers /\ ~Aborted
    /\ wpc[w] = "lock"
    /\ lock = 0
    /\ lock' = w
    /\ wpc' = [wpc EXCEPT ![w] = "recv"]
    /\ UNCHANGED <<size, sender, queue, kind, submitted, message, counter, runs,
                   taken, discarded, mpc, joinIdx, unwinding, pending, behind, rejected>>
    /\ UNCHANGED notPool

\* Variant of Recv: the newest message is handed out first.
RecvLast(w) ==
    /\ w \in Workers /\ ~Aborted
    /\ wpc[w] = "recv"
    /\ RecvResult(queue, sender) # "Block"
    /\ IF RecvResult(queue, sender) = "Ok"
         THEN /\ message' = [message EXCEPT ![w] = queue[Len(queue)]]
              /\ queue' = SubSeq(queue, 1, Len(queue) - 1)
              /\ taken' = [taken EXCEPT ![queue[Len(queue)]] = @ + 1]
         ELSE /\ message' = [message EXCEPT ![w] = 0]
              /\ UNCHANGED <<queue, taken>>
    /\ wpc' = [wpc EXCEPT ![w] = "guard"]
    /\ UNCHANGED <<size, sender, kind, submitted, lock, counter, runs,
                   discarded, mpc, joinIdx, unwinding, pending, behind, rejected>>
    /\ UNCHANGED notPool

\* .recv() under the guard: Ok(job) pops the head of the channel, Err(_) when the
\* channel is empty and the sender is dropped.
Recv(w) ==
    /\ w \in Workers /\ ~Aborted
    /\ wpc[w] = "recv"
    /\ RecvResult(queue, sender) # "Block"
    /\ IF RecvResult(queue, sender) = "Ok"
         THEN /\ message' = [message EXCEPT ![w] = Head(queue)]
              /\ queue' = Tail(queue)
              /\ taken' = [taken EXCEPT ![Head(queue)] = @ + 1]
         ELSE /\ message' = [message EXCEPT ![w] = 0]
              /\ UNCHANGED <<queue, taken>>
    /\ wpc' = [wpc EXCEPT ![w] = "guard"]
    /\ UNCHANGED <<size, sender, kind, submitted, lock, counter, runs,
                   discarded, mpc, joinIdx, unwinding, pending, behind, rejected>>
    /\ UNCHANGED notPool

\* Variant of DropGuard: the guard lives on into the match arm (as the scrutinee
\* temporary of `while let Ok(job) = receiver.lock().unwrap().recv()` would).
DropGuardLate(w) ==
    /\ w \in Workers /\ ~Aborted
    /\ wpc[w] = "guard"
    /\ lock' = IF message[w] # 0 THEN lock ELSE 0
    /\ wpc' = [wpc EXCEPT ![w] = IF message[w] # 0 THEN "exec" ELSE "exited"]
    /\ UNCHANGED <<size, sender, queue, kind, submitted, message, counter, runs,
                   taken, discarded, mpc, joinIdx, unwinding, pending, behind, rejected>>
    /\ UNCHANGED notPool

\* End of the statement `let message = receiver.lock().unwrap().recv();`: the
\* temporary MutexGuard is dropped, then the match runs: Ok(job) goes on to
\* job(), Err(_) breaks out of the loop and the thread ends.
DropGuard(w) ==
    /\ w \in Workers /\ ~Aborted
    /\ wpc[w] = "guard"
    /\ lock' = 0
    /\ wpc' = [wpc EXCEPT ![w] = IF message[w] # 0 THEN "exec" ELSE "exited"]
    /\ UNCHANGED <<size, sender, queue, kind, submitted, message, counter, runs,
                   taken, discarded, mpc, joinIdx, unwinding, pending, behind, rejected>>
    /\ UNCHANGED notPool

\* Variant of JobReturn: the closure body is not wrapped in `loop`, the thread
\* ends after its first job.
JobReturnOnce(w) ==
    /\ w \in Workers /\ ~Aborted
    /\ wpc[w] = "exec"
    /\ kind[message[w]] = "ok"
    /\ counter' = counter + 1
    /\ runs' = [runs EXCEPT ![message[w]] = @ + 1]
    /\ message' = [message EXCEPT ![w] = 0]
    /\ wpc' = [wpc EXCEPT ![w] = "exited"]
    /\ UNCHANGED <<size, sender, queue, kind, submitted, lock, taken,
                   discarded, mpc, joinIdx, unwinding, pending, behind, rejected>>
    /\ UNCHANGED notPool

\* job() returns: the closure did its side effect (fetch_add(1)); loop again.
JobReturn(w) ==
    /\ w \in Workers /\ ~Aborted
    /\ wpc[w] = "exec"
    /\ kind[message[w]] = "ok"
    /\ counter' = counter + 1
    /\ runs' = [runs EXCEPT ![message[w]] = @ + 1]
    /\ message' = [message EXCEPT ![w] = 0]
    /\ wpc' = [wpc EXCEPT ![w] = "lock"]
    /\ UNCHANGED <<size, sender, queue, kind, submitted, lock, taken,
                   discarded, mpc, joinIdx, unwinding, pending, behind, rejected>>
    /\ UNCHANGED notPool

\* Variant of JobPanic: the worker catches the panic and puts the job back on
\* the channel once before giving up.
JobPanicRetry(w) ==
    /\ w \in Workers /\ ~Aborted
    /\ wpc[w] = "exec"
    /\ kind[message[w]] = "fault"
    /\ runs' = [runs EXCEPT ![message[w]] = @ + 1]
    /\ message' = [message EXCEPT ![w] = 0]
    /\ IF runs[message[w]] = 0
         THEN /\ queue' = Append(queue, message[w])
              /\ wpc' = [wpc EXCEPT ![w] = "lock"]
              /\ UNCHANGED discarded
         ELSE /\ wpc' = [wpc EXCEPT ![w] = "panicked"]
              /\ IF \A v \in Workers \ {w} : Ended(v)
                   THEN /\ discarded' = discarded \cup RangeOf(queue)
                        /\ queue' = <<>>
                   ELSE UNCHANGED <<discarded, queue>>
    /\ behind' = behind \cup RangeOf(queue)
    /\ UNCHANGED <<size, sender, kind, submitted, lock, counter, taken,
                   mpc, joinIdx, unwinding, pending, rejected>>
    /\ UNCHANGED notPool

\* job() panics: the worker thread unwinds and ends; the job is consumed. When
\* this was the last live worker the Receiver is dropped with it, and the
\* messages still buffered are dropped unexecuted.
JobPanic(w) ==
    /\ w \in Workers /\ ~Aborted
    /\ wpc[w] = "exec"
    /\ kind[message[w]] = "fault"
    /\ runs' = [runs EXCEPT ![message[w]] = @ + 1]
    /\ message' = [message EXCEPT ![w] = 0]
    /\ wpc' = [wpc EXCEPT ![w] = "panicked"]
    /\ IF \A v \in Workers \ {w} : Ended(v)
         THEN /\ discarded' = discarded \cup RangeOf(queue)
              /\ queue' = <<>>
         ELSE UNCHANGED <<discarded, queue>>
    /\ behind' = behind \cup RangeOf(queue)
    /\ UNCHANGED <<size, sender, kind, submitted, lock, counter, taken,
                   mpc, joinIdx, unwinding, pending, rejected>>
    /\ UNCHANGED notPool

WorkerStep(w) == Lock(w) \/ Recv(w) \/ DropGuard(w) \/ JobReturn(w) \/ JobPanic(w)

----------------------------------------------------------------------------
\* The thread that owns the pool.

\* Variant of SizeAccepted: no assertion on the size.
SizeAcceptedAny(n) == TRUE

\* assert!(size > 0, "ThreadPool size must be greater than 0")
SizeAccepted(n) == n > 0

\* ThreadPool::new up to the worker loop: the assertion panics out of new for a
\* size it rejects, before anything is created; else the channel is created.
\* (`for id in 0..size` runs no iteration when size is 0.)
NewChannel ==
    /\ mpc = "new"
    /\ IF SizeAccepted(size)
         THEN /\ sender' = TRUE
              /\ mpc' = IF size = 0 THEN "active" ELSE "spawn"
         ELSE /\ mpc' = "invalid"
              /\ UNCHANGED sender
    /\ UNCHANGED <<size, queue, kind, submitted, lock, wpc, message, counter,
                   runs, taken, discarded, joinIdx, unwinding, pending, behind,
                   rejected>>
    /\ UNCHANGED notPool

\* ThreadPool::new, one iteration of `for id in 0..size`: Worker::new spawns the
\* next worker thread, which starts at the top of its loop; new returns the pool
\* after the last one.
SpawnWorker ==
    /\ mpc = "spawn"
    /\ Len(wpc) < size
    /\ wpc' = Append(wpc, "lock")
    /\ message' = Append(message, 0)
    /\ mpc' = IF Len(wpc) + 1 = size THEN "active" ELSE "spawn"
    /\ UNCHANGED <<size, sender, queue, kind, submitted, lock, counter, runs,
                   taken, discarded, joinIdx, unwinding, pending, behind, rejected>>
    /\ UNCHANGED notPool

\* ThreadPool::execute: sender.as_ref().unwrap().send(job).unwrap(). send never
\* blocks (unbounded channel); it returns Err when the Receiver is gone, and the
\* unwrap then panics in the caller.
Execute(k) ==
    /\ mpc = "active"
    /\ submitted < MaxJobs
    /\ submitted' = submitted + 1
    /\ kind' = [kind EXCEPT ![submitted + 1] = k]
    /\ IF ReceiverAlive
         THEN /\ queue' = Append(queue, submitted + 1)
              /\ UNCHANGED <<discarded, mpc, unwinding>>
         ELSE /\ discarded' = discarded \cup {submitted + 1}
              /\ mpc' = "unwind"
              /\ unwinding' = TRUE
              /\ UNCHANGED queue
    /\ UNCHANGED <<size, sender, lock, wpc, message, counter, runs, taken,
                   joinIdx, pending, behind, rejected>>
    /\ UNCHANGED notPool

\* Teardown has begun: Drop::drop has run its first statement.
TeardownBegun == mpc \in {"join", "returned", "panicked", "aborted"}

\* Variant of ExecuteLate: a pool whose sender is gone makes itself a new one.
ExecuteLateReopen(k) ==
    /\ mpc \in {"join", "returned", "panicked"}
    /\ rejected' = TRUE
    /\ sender' = TRUE
    /\ UNCHANGED <<size, queue, kind, submitted, lock, wpc, message, counter,
                   runs, taken, discarded, mpc, joinIdx, unwinding, pending, behind>>
    /\ UNCHANGED notPool

\* ThreadPool::execute reached after drop began. sender.as_ref().unwrap() panics
\* when the sender is None, before send: the job is dropped with the call. (Safe
\* callers outside the module cannot make this call, drop having the pool
\* exclusively; the action is what execute's code does when it is reached.)
ExecuteLate(k) ==
    /\ mpc \in {"join", "returned", "panicked"}
    /\ IF ~sender
         THEN /\ rejected' = TRUE
              /\ UNCHANGED <<submitted, kind, queue, discarded>>
         ELSE /\ submitted < MaxJobs
              /\ submitted' = submitted + 1
              /\ kind' = [kind EXCEPT ![submitted + 1] = k]
              /\ IF ReceiverAlive
                   THEN queue' = Append(queue, submitted + 1) /\ UNCHANGED discarded
                   ELSE discarded' = discarded \cup {submitted + 1} /\ UNCHANGED queue
              /\ UNCHANGED rejected
    /\ UNCHANGED <<size, sender, lock, wpc, message, counter, runs, taken,
                   mpc, joinIdx, unwinding, pending, behind>>
    /\ UNCHANGED notPool

\* Variant of DropSender: the sender is looked at but not taken out of the pool.
DropSenderKeep ==
    /\ mpc \in {"active", "unwind"}
    /\ \E u \in BOOLEAN : (mpc = "unwind" => u) /\ unwinding' = u
    /\ mpc' = "join"
    /\ joinIdx' = 1
    /\ pending' = InFlight
    /\ UNCHANGED <<size, sender, queue, kind, submitted, lock, wpc, message, counter,
                   runs, taken, discarded, behind, rejected>>
    /\ UNCHANGED notPool

\* Drop::drop, first statement: drop(self.sender.take()) closes the channel.
\* Runs when the pool goes out of scope: when the owning scope returns, or
\* while it unwinds from a panic (of execute, or of the owner's own code).
\* A close that throws away the messages still buffered in the channel.
DropSenderDiscard ==
    /\ mpc \in {"active", "unwind"}
    /\ \E u \in BOOLEAN : (mpc = "unwind" => u) /\ unwinding' = u
    /\ sender' = FALSE
    /\ mpc' = "join"
    /\ joinIdx' = 1
    /\ pending' = InFlight
    /\ queue' = <<>>
    /\ discarded' = discarded \cup RangeOf(queue)
    /\ UNCHANGED <<size, kind, submitted, lock, wpc, message, counter,
                   runs, taken, behind, rejected>>
    /\ UNCHANGED notPool

DropSender ==
    /\ mpc \in {"active", "unwind"}
    /\ \E u \in BOOLEAN : (mpc = "unwind" => u) /\ unwinding' = u
    /\ sender' = FALSE
    /\ mpc' = "join"
    /\ joinIdx' = 1
    /\ pending' = InFlight
    /\ UNCHANGED <<size, queue, kind, submitted, lock, wpc, message, counter,
                   runs, taken, discarded, behind, rejected>>
    /\ UNCHANGED notPool

\* Variant of JoinReady: the handle is dropped (detached) instead of joined.
JoinReadyNoWait(w) == TRUE

\* Variant of JoinResult: the Err of join is ignored (`let _ = handle.join()`).
JoinResultSwallow(w) == "Ok"

\* JoinHandle::join returns once the thread has ended.
JoinReady(w) == Ended(w)

\* The result of join: Err when the thread panicked.
JoinResult(w) == IF wpc[w] = "panicked" THEN "Err" ELSE "Ok"

\* Drop::drop, one iteration of `for worker in &mut self.workers`:
\* handle.join().unwrap(). Err panics out of drop (aborting the process when the
\* owner was already unwinding); after the last worker drop returns.
Join ==
    /\ mpc = "join"
    /\ joinIdx \in Workers
    /\ JoinReady(joinIdx)
    /\ IF JoinResult(joinIdx) = "Err"
         THEN /\ mpc' = IF unwinding THEN "aborted" ELSE "panicked"
              /\ UNCHANGED joinIdx
         ELSE /\ joinIdx' = joinIdx + 1
              /\ mpc' = IF joinIdx = size THEN "returned" ELSE "join"
    /\ UNCHANGED <<size, sender, queue, kind, submitted, lock, wpc, message,
                   counter, runs, taken, discarded, unwinding, pending, behind, rejected>>
    /\ UNCHANGED notPool

OwnerStep ==
    \/ NewChannel
    \/ SpawnWorker
    \/ \E k \in {"ok", "fault"} : Execute(k)
    \/ \E k \in {"ok", "fault"} : ExecuteLate(k)
    \/ DropSender
    \/ Join

Next == (\E w \in 1..MaxSize : WorkerStep(w)) \/ OwnerStep

Spec == Init /\ [][Next]_vars

\* Fair scheduling: every worker thread that can take a step eventually does
\* (a job that was started ends, by returning or by panicking), and a drop that
\* has begun goes on joining. Nothing forces the owner to submit or to drop.
FairSpec ==
    /\ Spec
    /\ \A w \in 1..MaxSize : WF_vars(WorkerStep(w))
    /\ WF_vars(Join)

TypeOK ==
    /\ size \in 0..MaxSize
    /\ sender \in BOOLEAN
    /\ queue \in Seq(Jobs)
    /\ kind \in [Jobs -> {"ok", "fault", "none"}]
    /\ submitted \in 0..MaxJobs
    /\ lock \in 0..size
    /\ wpc \in Seq({"lock", "recv", "guard", "exec", "exited", "panicked"})
    /\ Len(wpc) <= size
    /\ message \in [Workers -> 0..MaxJobs]
    /\ counter \in 0..MaxJobs
    /\ mpc \in {"new", "invalid", "spawn", "active", "unwind", "join", "returned",
               "panicked", "aborted"}
    /\ joinIdx \in 0..(size + 1)
    /\ unwinding \in BOOLEAN
    /\ pending \subseteq Jobs
    /\ behind \subseteq Jobs
    /\ rejected \in BOOLEAN

----------------------------------------------------------------------------
\* Properties of the thread pool.

\* No submitted job panics.
NoFault == \A j \in Jobs : kind[j] # "fault"

\* Drop::drop is over: it returned, or it panicked in join().unwrap().
DropReturned == mpc = "returned"
DropPanicked == mpc \in {"panicked", "aborted"}

\* The jobs that are being executed right now.
Executing == {message[w] : w \in {v \in Workers : wpc[v] = "exec"}}

\* A worker that is waiting for a job: on the receiver mutex, or in recv.
Idle(w) == ~Aborted /\ wpc[w] \in {"lock", "recv"}

\* C1: when k non-faulting jobs that each increment the counter once were
\* submitted before the drop, the counter is exactly k when drop returns: every
\* job ran once, none was lost, none ran twice.
C1_CounterEqualsJobs ==
    (DropReturned /\ NoFault) =>
        /\ counter = submitted
        /\ \A j \in 1..submitted : runs[j] = 1

C1_Witness ==
    DropReturned /\ NoFault /\ size = 2 /\ submitted = 3 /\ counter = 3

\* C2: drop does not return while a job submitted before it began is still
\* queued or executing: when drop returns no job is buffered or held by a
\* worker, and every job that was in flight when drop began has run to its end.
C2_DropIsBarrier ==
    DropReturned =>
        /\ InFlight = {}
        /\ \A w \in Workers : wpc[w] # "exec"
        /\ \A j \in pending : runs[j] = 1

C2_Witness ==
    DropReturned /\ pending # {} /\ \A j \in pending : runs[j] = 1

\* C3: under fair scheduling every one of the submitted non-faulting jobs is
\* eventually executed, none more than once, and at no time are more jobs
\* executing than there are workers.
C3_AllJobsRunOnce ==
    /\ [](Cardinality(Executing) <= size /\ \A j \in Jobs : runs[j] <= 1)
    /\ \A j \in Jobs : (submitted >= j) ~> (runs[j] = 1 \/ ~NoFault)

C3_Witness ==
    /\ NoFault /\ submitted > size /\ \A j \in 1..submitted : runs[j] = 1
    /\ size = 2

\* C4 (as claimed): with other workers in the pool, one faulting job does not
\* keep the jobs that were queued behind it from being executed before shutdown
\* is over.
C4_QueuedJobsRunBeforeShutdownEnds ==
    ( /\ DropReturned \/ DropPanicked
      /\ size >= 2
      /\ Cardinality({j \in Jobs : kind[j] = "fault"}) = 1 )
    => \A j \in behind : runs[j] = 1

\* C5: a worker that ended by a panic is never passed over silently by the
\* drop loop: every worker the loop has gone past ended cleanly, drop returns
\* only when no worker panicked, and when drop panics it is at a panicked worker.
C5_WorkerFailureSurfaced ==
    /\ \A w \in Workers : (mpc \in {"join", "returned"} /\ w < joinIdx) => wpc[w] = "exited"
    /\ DropReturned => \A w \in Workers : wpc[w] = "exited"
    /\ DropPanicked => (joinIdx \in Workers /\ wpc[joinIdx] = "panicked")

C5_Witness ==
    mpc = "panicked" /\ joinIdx = 2 /\ wpc[2] = "panicked" /\ wpc[1] = "exited"

\* C6 (as claimed): teardown is not over, whether by return or by panic, before
\* every worker thread has ended, also when a job faulted.
C6_AllWorkersEndedAfterTeardown ==
    (mpc \in {"returned", "panicked"}) => \A w \in Workers : Ended(w)

\* C7 (as claimed): while the pool is active (it still holds its sender) no
\* execute call fails, whatever the state of the workers. mpc = "unwind" is
\* the state of the owner after send returned Err and execute panicked.
C7_ExecuteSucceedsWhileActive ==
    sender => mpc # "unwind"

\* C8: once the sender is dropped no worker stays blocked in recv or on the
\* receiver mutex: under fair scheduling every worker thread ends (unless the
\* process aborted), and when no job faults drop returns.
C8_CloseUnblocksWorkers ==
    /\ TeardownBegun ~> (Aborted \/ \A w \in Workers : Ended(w))
    /\ TeardownBegun ~> (DropReturned \/ ~NoFault)

C8_Witness ==
    /\ TeardownBegun /\ ~sender /\ queue = <<>> /\ size = 2
    /\ \E w \in Workers : wpc[w] = "recv"
    /\ \E w \in Workers : wpc[w] = "lock"

\* C9: a worker that is executing a job does not hold the receiver mutex.
C9_NoLockWhileExecuting ==
    \A w \in Workers : wpc[w] = "exec" => lock # w

C9_Witness ==
    \E w, v \in Workers :
        /\ wpc[w] = "exec"
        /\ wpc[v] = "guard" /\ lock = v /\ message[v] # 0

\* C10: a job is handed to at most one worker and invoked at most once, a
\* faulted job is not put back on the channel, and under fair scheduling no job
\* stays buffered for ever while a live worker is idle.
C10_AtMostOnceNoLostWakeup ==
    /\ [](\A j \in Jobs :
            /\ taken[j] <= 1
            /\ runs[j] <= 1
            /\ Cardinality({w \in Workers : message[w] = j}) <= 1
            /\ taken[j] = 1 => j \notin RangeOf(queue))
    /\ \A j \in Jobs :
         []<>(~(j \in RangeOf(queue) /\ \E w \in Workers : Idle(w)))

C10_Witness ==
    /\ kind[1] = "fault" /\ runs[1] = 1 /\ taken[1] = 1
    /\ \E w \in Workers : wpc[w] = "panicked"
    /\ \E w \in Workers : wpc[w] = "exec" /\ message[w] = 2

\* The pool's lifecycle: 0 under construction (or construction failed),
\* 1 Active, 2 ShuttingDown, 3 Closed.
Phase ==
    CASE mpc \in {"new", "spawn", "invalid"} -> 0
      [] mpc \in {"active", "unwind"} -> 1
      [] mpc = "join" -> 2
      [] OTHER -> 3

\* C11: once drop has taken the sender no further job is accepted: an execute
\* call made then fails (it panics on the None sender) and leaves the channel,
\* the jobs, the workers and the pool as they were.
C11_SubmitAfterShutdownRejected ==
    /\ [](TeardownBegun => ~sender)
    /\ [][TeardownBegun =>
            /\ submitted' = submitted
            /\ kind' = kind
            /\ RangeOf(queue') \subseteq RangeOf(queue)]_vars
    /\ [][rejected' # rejected =>
            UNCHANGED <<sender, queue, kind, submitted, lock, wpc, message,
                        counter, runs, taken, discarded, mpc, joinIdx>>]_vars

C11_Witness ==
    rejected /\ mpc = "join" /\ queue # <<>> /\ \E w \in Workers : wpc[w] = "exec"

\* C12: ThreadPool::new(0) fails before a channel or a worker exists and the
\* size is not replaced by another one; for size > 0 the pool that new returns
\* has exactly size workers, with ids 0..size-1.
C12_ZeroSizeRejected ==
    /\ size = 0 => (mpc \in {"new", "invalid"} /\ ~sender /\ wpc = <<>> /\ queue = <<>>)
    /\ Len(wpc) <= size
    /\ Phase >= 1 =>
         /\ size > 0
         /\ Len(wpc) = size
         /\ {WorkerId(w) : w \in Workers} = 0..(size - 1)

C12_Witness ==
    size = 0 /\ mpc = "invalid"

\* C13: jobs are taken from the channel in the order in which the owner
\* submitted them: a job is not taken before every job submitted earlier was
\* taken, and the channel holds jobs in submission order. Jobs may finish in
\* another order.
C13_TakenInSubmissionOrder ==
    /\ \A a, b \in Jobs : (a < b /\ taken[b] > 0) => taken[a] > 0
    /\ \A i, k \in 1..Len(queue) : i < k => queue[i] < queue[k]

C13_Witness ==
    taken[1] = 1 /\ taken[2] = 1 /\ runs[2] = 1 /\ runs[1] = 0

\* C14: the lifecycle only moves forward (Active, ShuttingDown, Closed), and a
\* sender that was taken is never there again: the channel is closed once.
C14_LifecycleForwardOnly ==
    /\ [][Phase' >= Phase]_vars
    /\ [][(~sender /\ mpc # "new") => ~sender']_vars
    /\ [](Phase >= 2 => ~sender)

C14_Witness ==
    mpc = "returned" /\ ~sender /\ rejected /\ submitted > 0

\* C15 (as claimed): a job panic ends the worker that ran it, for good, and
\* changes nothing else: not the channel's content, not the receiver mutex
\* (which that worker does not hold), not another worker.
C15_FaultIsolated ==
    /\ [][\A w \in Workers :
            (wpc[w] = "exec" /\ wpc'[w] = "panicked") =>
                /\ queue' = queue
                /\ lock' = lock /\ lock # w
                /\ \A v \in Workers \ {w} : wpc'[v] = wpc[v] /\ message'[v] = message[v]]_vars
    /\ [][\A w \in Workers : wpc[w] = "panicked" => wpc'[w] = "panicked"]_vars
    /\ [][mpc # "spawn" => Len(wpc') = Len(wpc)]_vars

\* C16 (as claimed): no worker thread ends while the pool still holds its sender.
C16_NoWorkerEndsWhileSenderAlive ==
    \A w \in Workers : Ended(w) => ~sender

\* C16 (amended): a worker leaves its loop through break only after recv
\* returned Err, with the sender dropped and the channel empty; a worker thread
\* ended while the sender is alive is one whose job panicked.
C16_CleanExitOnlyOnClosed ==
    /\ \A w \in Workers : wpc[w] = "exited" => (~sender /\ queue = <<>>)
    /\ \A w \in Workers : (Ended(w) /\ sender) => wpc[w] = "panicked"

C16_Witness ==
    \E w, v \in Workers : wpc[w] = "exited" /\ wpc[v] = "panicked" /\ mpc = "join"

\* The drop loop has joined worker w: it went past it, or it panicked on its Err.
Joined(w) == w < joinIdx \/ (w = joinIdx /\ DropPanicked)

\* C17 (as claimed): whichever way the owning scope is left, by return or by
\* unwinding, the channel has been closed and every worker has been joined.
C17_JoinedOnEveryExit ==
    (mpc \in {"returned", "panicked"}) => (~sender /\ \A w \in Workers : Joined(w))

\* C30 (as claimed): in-flight and already-queued jobs finish before any worker
\* exits on the closed-signal.
C30_JobsFinishBeforeAnyExit ==
    \A w \in Workers : wpc[w] = "exited" => \A j \in pending : runs[j] > 0

\* C30 (amended): closing the queue discards no queued job; after the close a
\* recv still yields the oldest queued job and yields the closed-signal only
\* when the queue is empty; so when a worker exits on the closed-signal, every
\* job queued or in flight at the close has been taken by a worker and the
\* exiting worker holds no job. Jobs taken by other workers may still run.
C30_CloseKeepsQueuedWork ==
    /\ [](\A w \in Workers : wpc[w] = "exited" =>
              /\ queue = <<>>
              /\ message[w] = 0
              /\ \A j \in pending : taken[j] = 1 /\ j \notin discarded)
    /\ [][(sender /\ ~sender') => (queue' = queue /\ discarded' = discarded)]_vars
    /\ [][\A w \in Workers :
             (~sender /\ wpc[w] = "recv" /\ wpc'[w] = "guard") =>
                 IF queue # <<>>
                   THEN message'[w] = Head(queue) /\ queue' = Tail(queue)
                   ELSE message'[w] = 0]_vars

\* A worker exited on the closed-signal after jobs queued at the close were
\* taken, while another worker still runs one of them.
C30_Witness ==
    \E w, v \in Workers :
        /\ wpc[w] = "exited"
        /\ wpc[v] = "exec"
        /\ message[v] \in pending
        /\ Cardinality(pending) >= 2

----------------------------------------------------------------------------
\* p05_arc_counter: counter_with_atomic and counter_with_mutex, called one after
\* the other with the same arguments as in tests::benchmark_comparison.

CThreads == DOMAIN cpc

\* Where a thread's for loop stands after i completed iterations.
LoopOrDone(i) == IF i < cReps THEN "loop" ELSE "done"

CounterInit ==
    /\ PoolIdle /\ LogIdle /\ CacheIdle /\ LabIdle /\ BusIdle
    /\ cThreads \in 0..MaxThreads
    /\ cReps \in 0..MaxReps
    /\ cFn = "atomic"
    /\ cVal = 0
    /\ cLock = 0
    /\ cpc = <<>>
    /\ cIter = <<>>
    /\ cTmp = <<>>
    /\ cJoin = 0
    /\ atomicResult = 0
    /\ mutexResult = 0

\* One pass of `for _ in 1..=num_threads`: thread::spawn, handle pushed.
CounterSpawn ==
    /\ cFn \in {"atomic", "mutex"}
    /\ Len(cpc) < cThreads
    /\ cpc' = Append(cpc, LoopOrDone(0))
    /\ cIter' = Append(cIter, 0)
    /\ cTmp' = Append(cTmp, 0)
    /\ UNCHANGED <<cThreads, cReps, cFn, cVal, cLock, cJoin, atomicResult, mutexResult>>
    /\ UNCHANGED notCnt

\* A fetch_add whose read and write are two steps, so that another thread's
\* increment can fall between them.
FetchAddRacy(t) ==
    /\ t \in CThreads
    /\ cFn = "atomic"
    /\ \/ /\ cpc[t] = "loop"
          /\ cTmp' = [cTmp EXCEPT ![t] = cVal]
          /\ cpc' = [cpc EXCEPT ![t] = "store"]
          /\ UNCHANGED <<cVal, cIter>>
       \/ /\ cpc[t] = "store"
          /\ cVal' = cTmp[t] + 1
          /\ cIter' = [cIter EXCEPT ![t] = @ + 1]
          /\ cpc' = [cpc EXCEPT ![t] = LoopOrDone(cIter[t] + 1)]
          /\ UNCHANGED cTmp
    /\ UNCHANGED <<cThreads, cReps, cFn, cLock, cJoin, atomicResult, mutexResult>>
    /\ UNCHANGED notCnt

\* cloned_counter.fetch_add(1, Ordering::SeqCst): one atomic read-modify-write,
\* and the end of one loop iteration.
FetchAdd(t) ==
    /\ t \in CThreads
    /\ cFn = "atomic"
    /\ cpc[t] = "loop"
    /\ cVal' = cVal + 1
    /\ cIter' = [cIter EXCEPT ![t] = @ + 1]
    /\ cpc' = [cpc EXCEPT ![t] = LoopOrDone(cIter[t] + 1)]
    /\ UNCHANGED <<cThreads, cReps, cFn, cLock, cTmp, cJoin, atomicResult, mutexResult>>
    /\ UNCHANGED notCnt

\* let mut guard = cloned_counter.lock().unwrap(): blocks while the mutex is held.
MutexLock(t) ==
    /\ t \in CThreads
    /\ cFn = "mutex"
    /\ cpc[t] = "loop"
    /\ cLock = 0
    /\ cLock' = t
    /\ cpc' = [cpc EXCEPT ![t] = "load"]
    /\ UNCHANGED <<cThreads, cReps, cFn, cVal, cIter, cTmp, cJoin, atomicResult, mutexResult>>
    /\ UNCHANGED notCnt

\* *guard += 1, the read.
GuardLoad(t) ==
    /\ t \in CThreads
    /\ cFn = "mutex"
    /\ cpc[t] = "load"
    /\ cTmp' = [cTmp EXCEPT ![t] = cVal]
    /\ cpc' = [cpc EXCEPT ![t] = "store"]
    /\ UNCHANGED <<cThreads, cReps, cFn, cVal, cLock, cIter, cJoin, atomicResult, mutexResult>>
    /\ UNCHANGED notCnt

\* *guard += 1, the write.
GuardStore(t) ==
    /\ t \in CThreads
    /\ cFn = "mutex"
    /\ cpc[t] = "store"
    /\ cVal' = cTmp[t] + 1
    /\ cpc' = [cpc EXCEPT ![t] = "unlock"]
    /\ UNCHANGED <<cThreads, cReps, cFn, cLock, cIter, cTmp, cJoin, atomicResult, mutexResult>>
    /\ UNCHANGED notCnt

\* End of the loop body: the guard is dropped and the mutex unlocked.
GuardDrop(t) ==
    /\ t \in CThreads
    /\ cFn = "mutex"
    /\ cpc[t] = "unlock"
    /\ cLock' = 0
    /\ cIter' = [cIter EXCEPT ![t] = @ + 1]
    /\ cpc' = [cpc EXCEPT ![t] = LoopOrDone(cIter[t] + 1)]
    /\ UNCHANGED <<cThreads, cReps, cFn, cVal, cTmp, cJoin, atomicResult, mutexResult>>
    /\ UNCHANGED notCnt

CounterThreadStep(t) ==
    \/ FetchAdd(t)
    \/ MutexLock(t)
    \/ GuardLoad(t)
    \/ GuardStore(t)
    \/ GuardDrop(t)

\* One pass of `for handle in handles { handle.join().unwrap(); }`: returns once
\* the thread has ended.
CounterJoin ==
    /\ cFn \in {"atomic", "mutex"}
    /\ Len(cpc) = cThreads
    /\ cJoin < cThreads
    /\ cpc[cJoin + 1] = "done"
    /\ cJoin' = cJoin + 1
    /\ UNCHANGED <<cThreads, cReps, cFn, cVal, cLock, cpc, cIter, cTmp,
                   atomicResult, mutexResult>>
    /\ UNCHANGED notCnt

\* counter.load(Ordering::SeqCst) is returned; counter_with_mutex is called next
\* with a new counter.
AtomicReturn ==
    /\ cFn = "atomic"
    /\ Len(cpc) = cThreads
    /\ cJoin = cThreads
    /\ atomicResult' = cVal
    /\ cFn' = "mutex"
    /\ cVal' = 0
    /\ cpc' = <<>>
    /\ cIter' = <<>>
    /\ cTmp' = <<>>
    /\ cJoin' = 0
    /\ UNCHANGED <<cThreads, cReps, cLock, mutexResult>>
    /\ UNCHANGED notCnt

\* *(counter.lock().unwrap()) is returned.
MutexReturn ==
    /\ cFn = "mutex"
    /\ Len(cpc) = cThreads
    /\ cJoin = cThreads
    /\ cLock = 0
    /\ mutexResult' = cVal
    /\ cFn' = "done"
    /\ UNCHANGED <<cThreads, cReps, cVal, cLock, cpc, cIter, cTmp, cJoin, atomicResult>>
    /\ UNCHANGED notCnt

CounterNext ==
    \/ \E t \in 1..MaxThreads : CounterThreadStep(t)
    \/ CounterSpawn
    \/ CounterJoin
    \/ AtomicReturn
    \/ MutexReturn

CounterSpec == CounterInit /\ [][CounterNext]_vars

\* C18: for num_threads threads of increments_per_thread increments each,
\* counter_with_atomic and counter_with_mutex both return exactly
\* num_threads * increments_per_thread whatever the interleaving, hence the same
\* value as each other.
C18_BothCountersExact ==
    /\ cFn \in {"mutex", "done"} => atomicResult = cThreads * cReps
    /\ cFn = "done" =>
           /\ mutexResult = cThreads * cReps
           /\ mutexResult = atomicResult

C18_Witness ==
    /\ cFn = "done"
    /\ cThreads >= 2 /\ cReps >= 2
    /\ atomicResult = cThreads * cReps
    /\ mutexResult = atomicResult

----------------------------------------------------------------------------
\* p06_mutex_basics: threads appending to a Log shared as Arc<Mutex<Log>>, one
\* lock per append (tests::test_threaded_logging, demo_threaded_logging).

LThreads == DOMAIN lpc

\* Where a logging thread's for loop stands after i completed iterations.
LogLoopOrDone(i) == IF i < lReps THEN "loop" ELSE "done"

\* Vec::push as the thread sees it: the element is written at the length n it
\* read, and the length becomes n + 1.
WriteAt(v, n, x) == Append(SubSeq(v, 1, n), x)

\* Number of entries of v equal to x.
Count(v, x) == Cardinality({k \in DOMAIN v : v[k] = x})

LogInit ==
    /\ PoolIdle /\ CntIdle /\ CacheIdle /\ LabIdle /\ BusIdle
    /\ lThreads \in 0..MaxThreads
    /\ lReps \in 0..MaxReps
    /\ entries = <<>>
    /\ logLock = 0
    /\ lpc = <<>>
    /\ lIter = <<>>
    /\ lTmp = <<>>
    /\ lJoin = 0
    /\ lDone = FALSE
    /\ logLen = 0

\* One pass of `for thread_id in 1..=5`: thread::spawn, handle pushed.
LogSpawn ==
    /\ Len(lpc) < lThreads
    /\ lpc' = Append(lpc, LogLoopOrDone(0))
    /\ lIter' = Append(lIter, 0)
    /\ lTmp' = Append(lTmp, 0)
    /\ UNCHANGED <<lThreads, lReps, entries, logLock, lJoin, lDone, logLen>>
    /\ UNCHANGED notLog

\* A lock() that returns a guard although another thread holds one.
LogLockNoWait(t) ==
    /\ t \in LThreads
    /\ lpc[t] = "loop"
    /\ logLock' = t
    /\ lpc' = [lpc EXCEPT ![t] = "push"]
    /\ UNCHANGED <<lThreads, lReps, entries, lIter, lTmp, lJoin, lDone, logLen>>
    /\ UNCHANGED notLog

\* let mut guard = cloned_log.lock().unwrap(): blocks while the mutex is held.
LogLock(t) ==
    /\ t \in LThreads
    /\ lpc[t] = "loop"
    /\ logLock = 0
    /\ logLock' = t
    /\ lpc' = [lpc EXCEPT ![t] = "push"]
    /\ UNCHANGED <<lThreads, lReps, entries, lIter, lTmp, lJoin, lDone, logLen>>
    /\ UNCHANGED notLog

\* guard.append(..) -> self.entries.push(message): the length is read.
PushLen(t) ==
    /\ t \in LThreads
    /\ lpc[t] = "push"
    /\ lTmp' = [lTmp EXCEPT ![t] = Len(entries)]
    /\ lpc' = [lpc EXCEPT ![t] = "write"]
    /\ UNCHANGED <<lThreads, lReps, entries, logLock, lIter, lJoin, lDone, logLen>>
    /\ UNCHANGED notLog

\* self.entries.push(message): the message "Thread {thread_id} - message {i}"
\* is written and the length set.
PushWrite(t) ==
    /\ t \in LThreads
    /\ lpc[t] = "write"
    /\ entries' = WriteAt(entries, lTmp[t], <<t, lIter[t] + 1>>)
    /\ lpc' = [lpc EXCEPT ![t] = "unlock"]
    /\ UNCHANGED <<lThreads, lReps, logLock, lIter, lTmp, lJoin, lDone, logLen>>
    /\ UNCHANGED notLog

\* End of the loop body: the guard is dropped and the mutex unlocked.
LogUnlock(t) ==
    /\ t \in LThreads
    /\ lpc[t] = "unlock"
    /\ logLock' = 0
    /\ lIter' = [lIter EXCEPT ![t] = @ + 1]
    /\ lpc' = [lpc EXCEPT ![t] = LogLoopOrDone(lIter[t] + 1)]
    /\ UNCHANGED <<lThreads, lReps, entries, lTmp, lJoin, lDone, logLen>>
    /\ UNCHANGED notLog

LogThreadStep(t) ==
    \/ LogLock(t)
    \/ PushLen(t)
    \/ PushWrite(t)
    \/ LogUnlock(t)

\* One pass of `for handle in handles { handle.join().unwrap(); }`.
LogJoin ==
    /\ Len(lpc) = lThreads
    /\ lJoin < lThreads
    /\ lpc[lJoin + 1] = "done"
    /\ lJoin' = lJoin + 1
    /\ UNCHANGED <<lThreads, lReps, entries, logLock, lpc, lIter, lTmp, lDone, logLen>>
    /\ UNCHANGED notLog

\* let final_log = log.lock().unwrap(); final_log.len()
LogLen ==
    /\ Len(lpc) = lThreads
    /\ lJoin = lThreads
    /\ logLock = 0
    /\ ~lDone
    /\ lDone' = TRUE
    /\ logLen' = Len(entries)
    /\ UNCHANGED <<lThreads, lReps, entries, logLock, lpc, lIter, lTmp, lJoin>>
    /\ UNCHANGED notLog

LogNext ==
    \/ \E t \in 1..MaxThreads : LogThreadStep(t)
    \/ LogSpawn
    \/ LogJoin
    \/ LogLen

LogSpec == LogInit /\ [][LogNext]_vars

\* Every handle has been joined.
AllJoined == Len(lpc) = lThreads /\ lJoin = lThreads

\* C19: when T threads each append M messages to the shared Log, taking the
\* lock for each append, then once all threads are joined the log holds exactly
\* T*M entries, each message of each thread exactly once.
C19_LogHoldsEveryAppendOnce ==
    /\ AllJoined =>
           /\ Len(entries) = lThreads * lReps
           /\ \A t \in 1..lThreads : \A i \in 1..lReps : Count(entries, <<t, i>>) = 1
    /\ lDone => logLen = lThreads * lReps

C19_Witness ==
    /\ lDone
    /\ lThreads >= 2 /\ lReps >= 2
    /\ logLen = lThreads * lReps
    /\ entries[1][1] # entries[2][1]

----------------------------------------------------------------------------
\* p06_mutex_basics: threads that hold the Log mutex across their whole body
\* (tests::test_long_lock_blocks_threads, demo_long_lock).

LongLockThreads == 3   \* for thread_id in 1..=3

LongLockInit ==
    /\ PoolIdle /\ CntIdle /\ CacheIdle /\ LabIdle /\ BusIdle
    /\ lThreads = LongLockThreads
    /\ lReps = 1
    /\ entries = <<>>
    /\ logLock = 0
    /\ lpc = <<>>
    /\ lIter = <<>>
    /\ lTmp = <<>>
    /\ lJoin = 0
    /\ lDone = FALSE
    /\ logLen = 0

\* One pass of `for thread_id in 1..=3`: thread::spawn, handle pushed.
LongLockSpawn ==
    /\ Len(lpc) < lThreads
    /\ lpc' = Append(lpc, "acquire")
    /\ lIter' = Append(lIter, 0)
    /\ lTmp' = Append(lTmp, 0)
    /\ UNCHANGED <<lThreads, lReps, entries, logLock, lJoin, lDone, logLen>>
    /\ UNCHANGED notLog

\* A lock() that returns a guard although another thread holds one.
AcquireNoWait(t) ==
    /\ t \in 1..LongLockThreads /\ t \in LThreads
    /\ lpc[t] = "acquire"
    /\ logLock' = t
    /\ lpc' = [lpc EXCEPT ![t] = "sleep"]
    /\ UNCHANGED <<lThreads, lReps, entries, lIter, lTmp, lJoin, lDone, logLen>>
    /\ UNCHANGED notLog

\* let mut guard = cloned_log.lock().unwrap(): blocks while the mutex is held.
Acquire(t) ==
    /\ t \in 1..LongLockThreads /\ t \in LThreads
    /\ lpc[t] = "acquire"
    /\ logLock = 0
    /\ logLock' = t
    /\ lpc' = [lpc EXCEPT ![t] = "sleep"]
    /\ UNCHANGED <<lThreads, lReps, entries, lIter, lTmp, lJoin, lDone, logLen>>
    /\ UNCHANGED notLog

\* thread::sleep(..) returns, the guard still held.
Sleep(t) ==
    /\ t \in LThreads
    /\ lpc[t] = "sleep"
    /\ lpc' = [lpc EXCEPT ![t] = "append"]
    /\ UNCHANGED <<lThreads, lReps, entries, logLock, lIter, lTmp, lJoin, lDone, logLen>>
    /\ UNCHANGED notLog

\* guard.append(..) -> self.entries.push(message): the length is read.
AppendLen(t) ==
    /\ t \in LThreads
    /\ lpc[t] = "append"
    /\ lTmp' = [lTmp EXCEPT ![t] = Len(entries)]
    /\ lpc' = [lpc EXCEPT ![t] = "held"]
    /\ UNCHANGED <<lThreads, lReps, entries, logLock, lIter, lJoin, lDone, logLen>>
    /\ UNCHANGED notLog

\* self.entries.push(message): the message "Thread {thread_id}" is written.
AppendWrite(t) ==
    /\ t \in LThreads
    /\ lpc[t] = "held"
    /\ entries' = WriteAt(entries, lTmp[t], <<t, 0>>)
    /\ lpc' = [lpc EXCEPT ![t] = "release"]
    /\ UNCHANGED <<lThreads, lReps, logLock, lIter, lTmp, lJoin, lDone, logLen>>
    /\ UNCHANGED notLog

\* End of the closure: the guard is dropped, the mutex unlocked, the thread ends.
Release(t) ==
    /\ t \in LThreads
    /\ lpc[t] = "release"
    /\ logLock' = 0
    /\ lIter' = [lIter EXCEPT ![t] = 1]
    /\ lpc' = [lpc EXCEPT ![t] = "done"]
    /\ UNCHANGED <<lThreads, lReps, entries, lTmp, lJoin, lDone, logLen>>
    /\ UNCHANGED notLog

LongLockThreadStep(t) ==
    \/ Acquire(t)
    \/ Sleep(t)
    \/ AppendLen(t)
    \/ AppendWrite(t)
    \/ Release(t)

\* One pass of `for handle in handles { handle.join().unwrap(); }`.
LongLockJoin ==
    /\ Len(lpc) = lThreads
    /\ lJoin < lThreads
    /\ lpc[lJoin + 1] = "done"
    /\ lJoin' = lJoin + 1
    /\ UNCHANGED <<lThreads, lReps, entries, logLock, lpc, lIter, lTmp, lDone, logLen>>
    /\ UNCHANGED notLog

\* assert_eq!(log.lock().unwrap().len(), 3)
LongLockLen ==
    /\ Len(lpc) = lThreads
    /\ lJoin = lThreads
    /\ logLock = 0
    /\ ~lDone
    /\ lDone' = TRUE
    /\ logLen' = Len(entries)
    /\ UNCHANGED <<lThreads, lReps, entries, logLock, lpc, lIter, lTmp, lJoin>>
    /\ UNCHANGED notLog

LongLockNext ==
    \/ \E t \in 1..LongLockThreads : LongLockThreadStep(t)
    \/ LongLockSpawn
    \/ LongLockJoin
    \/ LongLockLen

LongLockSpec == LongLockInit /\ [][LongLockNext]_vars

\* Fair scheduling: the main thread goes on spawning and joining, and a thread
\* that can take a step (a lock() whose mutex is free included) eventually does.
LongLockFairSpec ==
    /\ LongLockSpec
    /\ \A t \in 1..LongLockThreads : WF_vars(LongLockThreadStep(t))
    /\ WF_vars(LongLockSpawn)
    /\ WF_vars(LongLockJoin)
    /\ WF_vars(LongLockLen)

\* Thread t is inside the locked section: between lock() returning and the
\* guard being dropped.
Inside(t) == t \in LThreads /\ lpc[t] \in {"sleep", "append", "held", "release"}

\* Thread t has acquired the lock at some point.
Acquired(t) == t \in LThreads /\ lpc[t] # "acquire"

\* C20: threads that hold the Log mutex across their whole body run those
\* bodies one after another: never are two threads inside the locked section,
\* each of the 3 threads contributes exactly one entry, and every thread
\* eventually acquires the lock.
C20_LongLockSerialises ==
    /\ [](\A t, u \in 1..LongLockThreads : (Inside(t) /\ Inside(u)) => t = u)
    /\ [](\A t \in 1..LongLockThreads : Inside(t) => logLock = t)
    /\ [](\A t \in LThreads : Count(entries, <<t, 0>>) = (IF lpc[t] \in {"release", "done"} THEN 1 ELSE 0))
    /\ [](lDone => (logLen = LongLockThreads /\ Len(entries) = LongLockThreads))
    /\ \A t \in 1..LongLockThreads : <>Acquired(t)

C20_Witness ==
    /\ lDone
    /\ logLen = LongLockThreads
    /\ \A t \in 1..LongLockThreads : Count(entries, <<t, 0>>) = 1
    /\ entries[1] = <<LongLockThreads, 0>>

----------------------------------------------------------------------------
\* p07_rwlock_cache: Cache<K, V>, used by one caller (tests::test_cache_basic_operations).

CacheKeys == 1..MaxKeys
CacheValues == 1..MaxVals

\* An Option<V>: <<>> is None, <<v>> is Some(v).
\* self.data.get(key).cloned()
CacheGet(d, k) == IF k \in DOMAIN d THEN <<d[k]>> ELSE <<>>

\* An insert that keeps the value of a key already present.
CacheInsertKeepOld(d, k, v) ==
    [x \in DOMAIN d \cup {k} |-> IF x \in DOMAIN d THEN d[x] ELSE v]

\* self.data.insert(key, value): HashMap::insert replaces the value of a key
\* already present.
CacheInsert(d, k, v) ==
    [x \in DOMAIN d \cup {k} |-> IF x = k THEN v ELSE d[x]]

\* self.data.len()
CacheLen(d) == Cardinality(DOMAIN d)

BasicInit ==
    /\ PoolIdle /\ CntIdle /\ LogIdle /\ LabIdle /\ BusIdle
    /\ kFn = "basic"
    /\ data = <<>>
    /\ inserted = <<>>
    /\ lastCall = <<"new">>
    /\ kReaders = 0 /\ kWriters = 0 /\ kReads = 0 /\ kWrites = 0
    /\ kpc = <<>> /\ kIter = <<>> /\ kTmp = <<>> /\ rwReaders = {} /\ rwWriter = 0
    /\ readCount = 0 /\ writeCount = 0 /\ kJoin = 0 /\ kDone = FALSE /\ kResult = <<>>

\* cache.insert(key, value)
BasicInsert(k, v) ==
    /\ kFn = "basic"
    /\ Len(inserted) < MaxOps
    /\ data' = CacheInsert(data, k, v)
    /\ inserted' = Append(inserted, <<k, v>>)
    /\ lastCall' = <<"insert", k, v>>
    /\ UNCHANGED <<kFn, sharedCacheVars>>
    /\ UNCHANGED notCache

\* cache.get(&key)
BasicGet(k) ==
    /\ kFn = "basic"
    /\ lastCall' = <<"get", k, CacheGet(data, k)>>
    /\ UNCHANGED <<kFn, data, inserted, sharedCacheVars>>
    /\ UNCHANGED notCache

\* cache.len()
BasicLen ==
    /\ kFn = "basic"
    /\ lastCall' = <<"len", CacheLen(data)>>
    /\ UNCHANGED <<kFn, data, inserted, sharedCacheVars>>
    /\ UNCHANGED notCache

CacheNext ==
    \/ \E k \in CacheKeys : \E v \in CacheValues : BasicInsert(k, v)
    \/ \E k \in CacheKeys : BasicGet(k)
    \/ BasicLen

CacheSpec == BasicInit /\ [][CacheNext]_vars

\* The value of the most recent insert of key k in the calls h, as an Option.
Latest(h, k) ==
    LET I == {i \in DOMAIN h : h[i][1] = k}
    IN  IF I = {} THEN <<>>
        ELSE <<h[CHOOSE i \in I : \A j \in I : j <= i][2]>>

\* The distinct keys inserted by the calls h.
KeysOf(h) == {h[i][1] : i \in DOMAIN h}

\* C21: after any sequence of insert calls, get(k) returns the value of the
\* most recent insert for k, None for a key never inserted, and len() is the
\* number of distinct keys inserted.
C21_GetLatestLenDistinct ==
    /\ lastCall[1] = "get" => lastCall[3] = Latest(inserted, lastCall[2])
    /\ lastCall[1] = "len" => lastCall[2] = Cardinality(KeysOf(inserted))
    /\ \A k \in CacheKeys : CacheGet(data, k) = Latest(inserted, k)
    /\ CacheLen(data) = Cardinality(KeysOf(inserted))

\* A key was inserted twice with different values and then read, another key
\* was never inserted.
C21_Witness ==
    /\ lastCall[1] = "get"
    /\ \E i, j \in DOMAIN inserted :
           /\ i < j
           /\ inserted[i][1] = lastCall[2] /\ inserted[j][1] = lastCall[2]
           /\ inserted[i][2] # inserted[j][2]
           /\ lastCall[3] = <<inserted[j][2]>>
    /\ \E k \in CacheKeys : CacheGet(data, k) = <<>>
    /\ CacheLen(data) = 1

----------------------------------------------------------------------------
\* p07_rwlock_cache: writer threads inserting into a Cache shared as
\* Arc<RwLock<Cache>> (tests::test_rwlock_cache_concurrent_access).

KThreads == DOMAIN kpc

KeyStride == 10   \* let key = writer_id * 10 + i

\* The key writer thread t inserts in iteration i (both counted from 0 in the code).
WriterKey(t, i) == (t - 1) * KeyStride + i

\* Where a writer's for loop stands after i completed iterations.
WriterLoopOrDone(i) == IF i < kWrites THEN "loop" ELSE "done"

WritersInit ==
    /\ PoolIdle /\ CntIdle /\ LogIdle /\ LabIdle /\ BusIdle
    /\ kFn = "writers"
    /\ data = <<>>
    /\ inserted = <<>>
    /\ lastCall = <<"new">>
    /\ kReaders = 0
    /\ kWriters \in 0..MaxThreads
    /\ kReads = 0
    /\ kWrites \in 0..MaxReps
    /\ kpc = <<>> /\ kIter = <<>> /\ kTmp = <<>>
    /\ rwReaders = {} /\ rwWriter = 0
    /\ readCount = 0 /\ writeCount = 0
    /\ kJoin = 0 /\ kDone = FALSE /\ kResult = <<>>

\* One pass of `for writer_id in 0..5`: thread::spawn, handle pushed.
WritersSpawn ==
    /\ kFn = "writers"
    /\ Len(kpc) < kWriters
    /\ kpc' = Append(kpc, WriterLoopOrDone(0))
    /\ kIter' = Append(kIter, 0)
    /\ kTmp' = Append(kTmp, <<>>)
    /\ UNCHANGED <<kFn, data, inserted, lastCall, kReaders, kWriters, kReads, kWrites,
                   rwReaders, rwWriter, readCount, writeCount, kJoin, kDone, kResult>>
    /\ UNCHANGED notCache

\* A write() that returns a guard although another thread holds one.
WriteLockNoWait(t) ==
    /\ t \in KThreads
    /\ kFn = "writers"
    /\ kpc[t] = "loop"
    /\ rwWriter' = t
    /\ kpc' = [kpc EXCEPT ![t] = "insert"]
    /\ UNCHANGED <<kFn, data, inserted, lastCall, kReaders, kWriters, kReads, kWrites,
                   kIter, kTmp, rwReaders, readCount, writeCount, kJoin, kDone, kResult>>
    /\ UNCHANGED notCache

\* let mut guard = cloned_cache.write().unwrap(): blocks while any guard is held.
WriteLock(t) ==
    /\ t \in KThreads
    /\ kFn = "writers"
    /\ kpc[t] = "loop"
    /\ rwWriter = 0 /\ rwReaders = {}
    /\ rwWriter' = t
    /\ kpc' = [kpc EXCEPT ![t] = "insert"]
    /\ UNCHANGED <<kFn, data, inserted, lastCall, kReaders, kWriters, kReads, kWrites,
                   kIter, kTmp, rwReaders, readCount, writeCount, kJoin, kDone, kResult>>
    /\ UNCHANGED notCache

\* guard.insert(key, key * 100): the map is read.
InsertRead(t) ==
    /\ t \in KThreads
    /\ kFn = "writers"
    /\ kpc[t] = "insert"
    /\ kTmp' = [kTmp EXCEPT ![t] = data]
    /\ kpc' = [kpc EXCEPT ![t] = "store"]
    /\ UNCHANGED <<kFn, data, inserted, lastCall, kReaders, kWriters, kReads, kWrites,
                   kIter, rwReaders, rwWriter, readCount, writeCount, kJoin, kDone, kResult>>
    /\ UNCHANGED notCache

\* guard.insert(key, key * 100): the map with the entry is written.
InsertWrite(t) ==
    /\ t \in KThreads
    /\ kFn = "writers"
    /\ kpc[t] = "store"
    /\ data' = CacheInsert(kTmp[t], WriterKey(t, kIter[t]), WriterKey(t, kIter[t]) * 100)
    /\ kTmp' = [kTmp EXCEPT ![t] = <<>>]
    /\ kpc' = [kpc EXCEPT ![t] = "unlock"]
    /\ UNCHANGED <<kFn, inserted, lastCall, kReaders, kWriters, kReads, kWrites,
                   kIter, rwReaders, rwWriter, readCount, writeCount, kJoin, kDone, kResult>>
    /\ UNCHANGED notCache

\* End of the loop body: the write guard is dropped.
WriteUnlock(t) ==
    /\ t \in KThreads
    /\ kFn = "writers"
    /\ kpc[t] = "unlock"
    /\ rwWriter' = 0
    /\ kIter' = [kIter EXCEPT ![t] = @ + 1]
    /\ kpc' = [kpc EXCEPT ![t] = WriterLoopOrDone(kIter[t] + 1)]
    /\ UNCHANGED <<kFn, data, inserted, lastCall, kReaders, kWriters, kReads, kWrites,
                   kTmp, rwReaders, readCount, writeCount, kJoin, kDone, kResult>>
    /\ UNCHANGED notCache

WriterStep(t) ==
    \/ WriteLock(t)
    \/ InsertRead(t)
    \/ InsertWrite(t)
    \/ WriteUnlock(t)

\* One pass of `for h in handles { h.join().unwrap(); }`.
WritersJoin ==
    /\ kFn = "writers"
    /\ Len(kpc) = kWriters
    /\ kJoin < kWriters
    /\ kpc[kJoin + 1] = "done"
    /\ kJoin' = kJoin + 1
    /\ UNCHANGED <<kFn, data, inserted, lastCall, kReaders, kWriters, kReads, kWrites, kpc,
                   kIter, kTmp, rwReaders, rwWriter, readCount, writeCount, kDone, kResult>>
    /\ UNCHANGED notCache

\* let final_cache = cache.read().unwrap(); final_cache.len()
WritersLen ==
    /\ kFn = "writers"
    /\ Len(kpc) = kWriters
    /\ kJoin = kWriters
    /\ rwWriter = 0
    /\ ~kDone
    /\ kDone' = TRUE
    /\ kResult' = <<CacheLen(data)>>
    /\ UNCHANGED <<kFn, data, inserted, lastCall, kReaders, kWriters, kReads, kWrites, kpc,
                   kIter, kTmp, rwReaders, rwWriter, readCount, writeCount, kJoin>>
    /\ UNCHANGED notCache

WritersNext ==
    \/ \E t \in 1..MaxThreads : WriterStep(t)
    \/ WritersSpawn
    \/ WritersJoin
    \/ WritersLen

WritersSpec == WritersInit /\ [][WritersNext]_vars

\* Every writer handle has been joined.
WritersJoined == Len(kpc) = kWriters /\ kJoin = kWriters

\* C22: when W writers each insert K keys of pairwise disjoint key sets, taking
\* the write lock per insert, then once all writers are joined the cache holds
\* exactly W*K entries and every key maps to the value its writer stored.
C22_DisjointWritersAllStored ==
    /\ WritersJoined =>
           /\ CacheLen(data) = kWriters * kWrites
           /\ \A t \in 1..kWriters : \A i \in 0..(kWrites - 1) :
                  CacheGet(data, WriterKey(t, i)) = <<WriterKey(t, i) * 100>>
    /\ kDone => kResult = <<kWriters * kWrites>>

C22_Witness ==
    /\ kDone
    /\ kWriters >= 2 /\ kWrites >= 2
    /\ kResult = <<kWriters * kWrites>>
    /\ CacheGet(data, WriterKey(2, 1)) = <<WriterKey(2, 1) * 100>>

----------------------------------------------------------------------------
\* p07_rwlock_cache: reader and writer threads on a shared TrackedCache
\* (tests::test_tracked_cache_stats). Threads 1..kReaders are the readers, the
\* writers follow them.

IsReader(t) == t \in KThreads /\ t <= kReaders
IsWriter(t) == t \in KThreads /\ t > kReaders

\* Where a thread's for loop stands after i completed iterations.
TrackedLoopOrDone(t, i) ==
    IF i < (IF t <= kReaders THEN kReads ELSE kWrites) THEN "loop" ELSE "done"

TrackedInit ==
    /\ PoolIdle /\ CntIdle /\ LogIdle /\ LabIdle /\ BusIdle
    /\ kFn = "tracked"
    /\ data = <<>>
    /\ inserted = <<>>
    /\ lastCall = <<"new">>
    /\ kReaders \in 0..MaxThreads
    /\ kWriters \in 0..(MaxThreads - kReaders)
    /\ kReads \in 0..MaxReps
    /\ kWrites \in 0..MaxReps
    /\ kpc = <<>> /\ kIter = <<>> /\ kTmp = <<>>
    /\ rwReaders = {} /\ rwWriter = 0
    /\ readCount = 0 /\ writeCount = 0
    /\ kJoin = 0 /\ kDone = FALSE /\ kResult = <<>>

\* One pass of `for _ in 0..4` or of `for _ in 0..2`: thread::spawn, handle pushed.
TrackedSpawn ==
    /\ kFn = "tracked"
    /\ Len(kpc) < kReaders + kWriters
    /\ kpc' = Append(kpc, TrackedLoopOrDone(Len(kpc) + 1, 0))
    /\ kIter' = Append(kIter, 0)
    /\ kTmp' = Append(kTmp, <<>>)
    /\ UNCHANGED <<kFn, data, inserted, lastCall, kReaders, kWriters, kReads, kWrites,
                   rwReaders, rwWriter, readCount, writeCount, kJoin, kDone, kResult>>
    /\ UNCHANGED notCache

\* A fetch_add whose read and write are two steps.
CountReadRacy(t) ==
    /\ IsReader(t)
    /\ kFn = "tracked"
    /\ \/ /\ kpc[t] = "loop"
          /\ kTmp' = [kTmp EXCEPT ![t] = <<readCount>>]
          /\ kpc' = [kpc EXCEPT ![t] = "count"]
          /\ UNCHANGED readCount
       \/ /\ kpc[t] = "count"
          /\ readCount' = kTmp[t][1] + 1
          /\ kTmp' = [kTmp EXCEPT ![t] = <<>>]
          /\ kpc' = [kpc EXCEPT ![t] = "rlock"]
    /\ UNCHANGED <<kFn, data, inserted, lastCall, kReaders, kWriters, kReads, kWrites,
                   kIter, rwReaders, rwWriter, writeCount, kJoin, kDone, kResult>>
    /\ UNCHANGED notCache

\* TrackedCache::get: self.read_count.fetch_add(1, Ordering::Relaxed), one
\* atomic read-modify-write.
CountRead(t) ==
    /\ IsReader(t)
    /\ kFn = "tracked"
    /\ kpc[t] = "loop"
    /\ readCount' = readCount + 1
    /\ kpc' = [kpc EXCEPT ![t] = "rlock"]
    /\ UNCHANGED <<kFn, data, inserted, lastCall, kReaders, kWriters, kReads, kWrites,
                   kIter, kTmp, rwReaders, rwWriter, writeCount, kJoin, kDone, kResult>>
    /\ UNCHANGED notCache

\* TrackedCache::get: let guard = self.inner.read().unwrap(): blocks while the
\* write guard is held.
TrackedReadLock(t) ==
    /\ IsReader(t)
    /\ kFn = "tracked"
    /\ kpc[t] = "rlock"
    /\ rwWriter = 0
    /\ rwReaders' = rwReaders \cup {t}
    /\ kpc' = [kpc EXCEPT ![t] = "get"]
    /\ UNCHANGED <<kFn, data, inserted, lastCall, kReaders, kWriters, kReads, kWrites,
                   kIter, kTmp, rwWriter, readCount, writeCount, kJoin, kDone, kResult>>
    /\ UNCHANGED notCache

\* TrackedCache::get: guard.get(key) is returned and the read guard dropped; the
\* caller discards the value (`let _ =`). End of one loop iteration.
TrackedGet(t) ==
    /\ IsReader(t)
    /\ kFn = "tracked"
    /\ kpc[t] = "get"
    /\ lastCall' = <<"get", kIter[t], CacheGet(data, kIter[t])>>
    /\ rwReaders' = rwReaders \ {t}
    /\ kIter' = [kIter EXCEPT ![t] = @ + 1]
    /\ kpc' = [kpc EXCEPT ![t] = TrackedLoopOrDone(t, kIter[t] + 1)]
    /\ UNCHANGED <<kFn, data, inserted, kReaders, kWriters, kReads, kWrites, kTmp,
                   rwWriter, readCount, writeCount, kJoin, kDone, kResult>>
    /\ UNCHANGED notCache

\* TrackedCache::insert: self.write_count.fetch_add(1, Ordering::Relaxed).
CountWrite(t) ==
    /\ IsWriter(t)
    /\ kFn = "tracked"
    /\ kpc[t] = "loop"
    /\ writeCount' = writeCount + 1
    /\ kpc' = [kpc EXCEPT ![t] = "wlock"]
    /\ UNCHANGED <<kFn, data, inserted, lastCall, kReaders, kWriters, kReads, kWrites,
                   kIter, kTmp, rwReaders, rwWriter, readCount, kJoin, kDone, kResult>>
    /\ UNCHANGED notCache

\* TrackedCache::insert: let mut guard = self.inner.write().unwrap(): blocks
\* while any guard is held.
TrackedWriteLock(t) ==
    /\ IsWriter(t)
    /\ kFn = "tracked"
    /\ kpc[t] = "wlock"
    /\ rwWriter = 0 /\ rwReaders = {}
    /\ rwWriter' = t
    /\ kpc' = [kpc EXCEPT ![t] = "insert"]
    /\ UNCHANGED <<kFn, data, inserted, lastCall, kReaders, kWriters, kReads, kWrites,
                   kIter, kTmp, rwReaders, readCount, writeCount, kJoin, kDone, kResult>>
    /\ UNCHANGED notCache

\* TrackedCache::insert: guard.insert(key, value), the map is read.
TrackedInsertRead(t) ==
    /\ IsWriter(t)
    /\ kFn = "tracked"
    /\ kpc[t] = "insert"
    /\ kTmp' = [kTmp EXCEPT ![t] = data]
    /\ kpc' = [kpc EXCEPT ![t] = "store"]
    /\ UNCHANGED <<kFn, data, inserted, lastCall, kReaders, kWriters, kReads, kWrites,
                   kIter, rwReaders, rwWriter, readCount, writeCount, kJoin, kDone,
                   kResult>>
    /\ UNCHANGED notCache

\* TrackedCache::insert: guard.insert(i, i * 10), the map with the entry is
\* written; the write guard is dropped on return. End of one loop iteration.
TrackedInsertWrite(t) ==
    /\ IsWriter(t)
    /\ kFn = "tracked"
    /\ kpc[t] = "store"
    /\ data' = CacheInsert(kTmp[t], kIter[t], kIter[t] * 10)
    /\ kTmp' = [kTmp EXCEPT ![t] = <<>>]
    /\ rwWriter' = 0
    /\ kIter' = [kIter EXCEPT ![t] = @ + 1]
    /\ kpc' = [kpc EXCEPT ![t] = TrackedLoopOrDone(t, kIter[t] + 1)]
    /\ UNCHANGED <<kFn, inserted, lastCall, kReaders, kWriters, kReads, kWrites, rwReaders,
                   readCount, writeCount, kJoin, kDone, kResult>>
    /\ UNCHANGED notCache

TrackedStep(t) ==
    \/ CountRead(t)
    \/ TrackedReadLock(t)
    \/ TrackedGet(t)
    \/ CountWrite(t)
    \/ TrackedWriteLock(t)
    \/ TrackedInsertRead(t)
    \/ TrackedInsertWrite(t)

\* One pass of `for h in handles { h.join().unwrap(); }`.
TrackedJoin ==
    /\ kFn = "tracked"
    /\ Len(kpc) = kReaders + kWriters
    /\ kJoin < kReaders + kWriters
    /\ kpc[kJoin + 1] = "done"
    /\ kJoin' = kJoin + 1
    /\ UNCHANGED <<kFn, data, inserted, lastCall, kReaders, kWriters, kReads, kWrites, kpc,
                   kIter, kTmp, rwReaders, rwWriter, readCount, writeCount, kDone, kResult>>
    /\ UNCHANGED notCache

\* let (reads, writes) = cache.stats(): the two counters are loaded.
TrackedStats ==
    /\ kFn = "tracked"
    /\ Len(kpc) = kReaders + kWriters
    /\ kJoin = kReaders + kWriters
    /\ ~kDone
    /\ kDone' = TRUE
    /\ kResult' = <<readCount, writeCount>>
    /\ UNCHANGED <<kFn, data, inserted, lastCall, kReaders, kWriters, kReads, kWrites, kpc,
                   kIter, kTmp, rwReaders, rwWriter, readCount, writeCount, kJoin>>
    /\ UNCHANGED notCache

TrackedNext ==
    \/ \E t \in 1..MaxThreads : TrackedStep(t)
    \/ TrackedSpawn
    \/ TrackedJoin
    \/ TrackedStats

TrackedSpec == TrackedInit /\ [][TrackedNext]_vars

\* Every handle of the tracked-cache threads has been joined.
TrackedJoined == Len(kpc) = kReaders + kWriters /\ kJoin = kReaders + kWriters

\* C23: after all threads using a shared TrackedCache have been joined, stats()
\* returns exactly (number of get calls made, number of insert calls made).
C23_StatsCountEveryCall ==
    /\ TrackedJoined =>
           /\ readCount = kReaders * kReads
           /\ writeCount = kWriters * kWrites
    /\ kDone => kResult = <<kReaders * kReads, kWriters * kWrites>>

\* Readers and writers shared the cache and stats() counted both.
C23_Witness ==
    /\ kFn = "tracked"
    /\ kDone
    /\ kReaders >= 1 /\ kWriters >= 1 /\ kReads >= 2 /\ kWrites >= 2
    /\ kResult = <<kReaders * kReads, kWriters * kWrites>>
    /\ lastCall = <<"get", 1, <<10>>>>

----------------------------------------------------------------------------
\* p08_deadlock_lab: one of the scenario functions is called.

ScenarioA == {"a_deadlock", "a_fixed"}
ScenarioB == {"b_deadlock", "b_nested", "b_drop_early", "b_pass_guard"}
ScenarioC == {"c_starvation"}
LabFns == ScenarioA \cup ScenarioB \cup ScenarioC

LabThreads == DOMAIN tpc

\* Number of threads the called function spawns.
NThreads == IF labFn \in ScenarioA THEN 2 ELSE IF labFn \in ScenarioC THEN nReaders + 1 ELSE 0

LabInit ==
    /\ PoolIdle /\ CntIdle /\ LogIdle /\ CacheIdle /\ BusIdle
    /\ labFn \in LabFns
    /\ mainPc = (IF labFn \in ScenarioB THEN "run" ELSE "spawn")
    /\ bpc = 1
    /\ held = FALSE
    /\ labVal = 0
    /\ tpc = <<>>
    /\ tIter = <<>>
    /\ locks = [A |-> 0, B |-> 0]
    /\ labReaders = {}
    /\ labWriter = 0
    /\ nReaders \in (IF labFn \in ScenarioC THEN 0..MaxThreads ELSE {0})
    /\ nReads \in (IF labFn \in ScenarioC THEN 0..MaxReps ELSE {0})
    /\ labJoin = 0
    /\ labResult = <<>>

\* ---- scenario A: two threads, two mutexes ----

\* Both threads of either function take B first and A second.
LockOrderOpposed(fn, t) ==
    IF t = 2 THEN <<"B", "A">> ELSE <<"A", "B">>

\* The order in which thread t of function fn locks the two mutexes:
\* demo_deadlock's thread 2 locks B then A, every other thread A then B.
LockOrder(fn, t) ==
    IF fn = "a_deadlock" /\ t = 2 THEN <<"B", "A">> ELSE <<"A", "B">>

\* let _guard_a = cloned_lock_a.lock().unwrap() (thread 2 of demo_deadlock: lock B).
AcquireFirst(t) ==
    /\ t \in LabThreads
    /\ labFn \in ScenarioA
    /\ tpc[t] = "first"
    /\ locks[LockOrder(labFn, t)[1]] = 0
    /\ locks' = [locks EXCEPT ![LockOrder(labFn, t)[1]] = t]
    /\ tpc' = [tpc EXCEPT ![t] = "sleep"]
    /\ UNCHANGED <<labFn, mainPc, bpc, held, labVal, tIter, labReaders, labWriter,
                   nReaders, nReads, labJoin, labResult>>
    /\ UNCHANGED notLab

\* thread::sleep(Duration::from_millis(100)) returns.
SleepHolding(t) ==
    /\ t \in LabThreads
    /\ labFn \in ScenarioA
    /\ tpc[t] = "sleep"
    /\ tpc' = [tpc EXCEPT ![t] = "second"]
    /\ UNCHANGED <<labFn, mainPc, bpc, held, labVal, tIter, locks, labReaders, labWriter,
                   nReaders, nReads, labJoin, labResult>>
    /\ UNCHANGED notLab

\* let _guard_b = cloned_lock_b.lock().unwrap() (thread 2 of demo_deadlock: lock A).
AcquireSecond(t) ==
    /\ t \in LabThreads
    /\ labFn \in ScenarioA
    /\ tpc[t] = "second"
    /\ locks[LockOrder(labFn, t)[2]] = 0
    /\ locks' = [locks EXCEPT ![LockOrder(labFn, t)[2]] = t]
    /\ tpc' = [tpc EXCEPT ![t] = "both"]
    /\ UNCHANGED <<labFn, mainPc, bpc, held, labVal, tIter, labReaders, labWriter,
                   nReaders, nReads, labJoin, labResult>>
    /\ UNCHANGED notLab

\* End of the closure: the guard declared last is dropped first.
ReleaseSecond(t) ==
    /\ t \in LabThreads
    /\ labFn \in ScenarioA
    /\ tpc[t] = "both"
    /\ locks' = [locks EXCEPT ![LockOrder(labFn, t)[2]] = 0]
    /\ tpc' = [tpc EXCEPT ![t] = "release"]
    /\ UNCHANGED <<labFn, mainPc, bpc, held, labVal, tIter, labReaders, labWriter,
                   nReaders, nReads, labJoin, labResult>>
    /\ UNCHANGED notLab

\* End of the closure: the first guard is dropped and the thread ends.
ReleaseFirst(t) ==
    /\ t \in LabThreads
    /\ labFn \in ScenarioA
    /\ tpc[t] = "release"
    /\ locks' = [locks EXCEPT ![LockOrder(labFn, t)[1]] = 0]
    /\ tpc' = [tpc EXCEPT ![t] = "done"]
    /\ UNCHANGED <<labFn, mainPc, bpc, held, labVal, tIter, labReaders, labWriter,
                   nReaders, nReads, labJoin, labResult>>
    /\ UNCHANGED notLab

\* ---- scenario C: readers and one writer on an RwLock ----

\* Threads 1..nReaders are the readers; the writer is spawned last.
LabReader(t) == t \in LabThreads /\ labFn \in ScenarioC /\ t <= nReaders
LabWriter(t) == t \in LabThreads /\ labFn \in ScenarioC /\ t = nReaders + 1

\* Where a reader's for loop stands after i completed iterations.
ReaderLoopOrDone(i) == IF i < nReads THEN "loop" ELSE "done"

\* The position a newly spawned thread t starts at.
StartPc(t) ==
    IF labFn \in ScenarioA THEN "first"
    ELSE IF t <= nReaders THEN ReaderLoopOrDone(0) ELSE "wsleep"

\* let guard = cloned_data.read().unwrap(): blocks while the write guard is held.
ReadAcquire(t) ==
    /\ LabReader(t)
    /\ tpc[t] = "loop"
    /\ labWriter = 0
    /\ labReaders' = labReaders \cup {t}
    /\ tpc' = [tpc EXCEPT ![t] = "rsleep"]
    /\ UNCHANGED <<labFn, mainPc, bpc, held, labVal, tIter, locks, labWriter, nReaders,
                   nReads, labJoin, labResult>>
    /\ UNCHANGED notLab

\* thread::sleep(Duration::from_millis(5)) returns, the read guard still held.
ReadSleep(t) ==
    /\ LabReader(t)
    /\ tpc[t] = "rsleep"
    /\ tpc' = [tpc EXCEPT ![t] = "deref"]
    /\ UNCHANGED <<labFn, mainPc, bpc, held, labVal, tIter, locks, labReaders, labWriter,
                   nReaders, nReads, labJoin, labResult>>
    /\ UNCHANGED notLab

\* let _ = *guard; end of the loop body, the read guard is dropped.
ReadRelease(t) ==
    /\ LabReader(t)
    /\ tpc[t] = "deref"
    /\ labReaders' = labReaders \ {t}
    /\ tIter' = [tIter EXCEPT ![t] = @ + 1]
    /\ tpc' = [tpc EXCEPT ![t] = ReaderLoopOrDone(tIter[t] + 1)]
    /\ UNCHANGED <<labFn, mainPc, bpc, held, labVal, locks, labWriter, nReaders, nReads,
                   labJoin, labResult>>
    /\ UNCHANGED notLab

\* The writer's thread::sleep(Duration::from_millis(10)) returns.
WriterSleep(t) ==
    /\ LabWriter(t)
    /\ tpc[t] = "wsleep"
    /\ tpc' = [tpc EXCEPT ![t] = "wlock"]
    /\ UNCHANGED <<labFn, mainPc, bpc, held, labVal, tIter, locks, labReaders, labWriter,
                   nReaders, nReads, labJoin, labResult>>
    /\ UNCHANGED notLab

\* A write() that returns a guard although read guards are held.
WriteAcquireOverReaders(t) ==
    /\ LabWriter(t)
    /\ tpc[t] = "wlock"
    /\ labWriter = 0
    /\ labWriter' = t
    /\ tpc' = [tpc EXCEPT ![t] = "add"]
    /\ UNCHANGED <<labFn, mainPc, bpc, held, labVal, tIter, locks, labReaders, nReaders,
                   nReads, labJoin, labResult>>
    /\ UNCHANGED notLab

\* let mut guard = cloned_data.write().unwrap(): blocks while any guard is held.
WriteAcquire(t) ==
    /\ LabWriter(t)
    /\ tpc[t] = "wlock"
    /\ labWriter = 0 /\ labReaders = {}
    /\ labWriter' = t
    /\ tpc' = [tpc EXCEPT ![t] = "add"]
    /\ UNCHANGED <<labFn, mainPc, bpc, held, labVal, tIter, locks, labReaders, nReaders,
                   nReads, labJoin, labResult>>
    /\ UNCHANGED notLab

\* *guard += 1
WriterAdd(t) ==
    /\ LabWriter(t)
    /\ tpc[t] = "add"
    /\ labVal' = labVal + 1
    /\ tpc' = [tpc EXCEPT ![t] = "wdrop"]
    /\ UNCHANGED <<labFn, mainPc, bpc, held, tIter, locks, labReaders, labWriter, nReaders,
                   nReads, labJoin, labResult>>
    /\ UNCHANGED notLab

\* End of the writer's closure: the write guard is dropped and the thread ends.
WriterRelease(t) ==
    /\ LabWriter(t)
    /\ tpc[t] = "wdrop"
    /\ labWriter' = 0
    /\ tpc' = [tpc EXCEPT ![t] = "done"]
    /\ UNCHANGED <<labFn, mainPc, bpc, held, labVal, tIter, locks, labReaders, nReaders,
                   nReads, labJoin, labResult>>
    /\ UNCHANGED notLab

LabThreadStep(t) ==
    \/ AcquireFirst(t)
    \/ SleepHolding(t)
    \/ AcquireSecond(t)
    \/ ReleaseSecond(t)
    \/ ReleaseFirst(t)
    \/ ReadAcquire(t)
    \/ ReadSleep(t)
    \/ ReadRelease(t)
    \/ WriterSleep(t)
    \/ WriteAcquire(t)
    \/ WriterAdd(t)
    \/ WriterRelease(t)

\* ---- the calling thread of scenarios A and C ----

\* thread::spawn: the next thread is started; after the last one the joins begin.
LabSpawn ==
    /\ mainPc = "spawn"
    /\ Len(tpc) < NThreads
    /\ tpc' = Append(tpc, StartPc(Len(tpc) + 1))
    /\ tIter' = Append(tIter, 0)
    /\ mainPc' = (IF Len(tpc) + 1 = NThreads THEN "join" ELSE "spawn")
    /\ UNCHANGED <<labFn, bpc, held, labVal, locks, labReaders, labWriter, nReaders,
                   nReads, labJoin, labResult>>
    /\ UNCHANGED notLab

\* h.join().unwrap(): returns once the thread has ended.
LabJoin ==
    /\ mainPc = "join"
    /\ labJoin < NThreads
    /\ tpc[labJoin + 1] = "done"
    /\ labJoin' = labJoin + 1
    /\ UNCHANGED <<labFn, mainPc, bpc, held, labVal, tpc, tIter, locks, labReaders,
                   labWriter, nReaders, nReads, labResult>>
    /\ UNCHANGED notLab

\* Scenario A: println!("Done!") after both joins.
LabDone ==
    /\ labFn \in ScenarioA
    /\ mainPc = "join"
    /\ labJoin = NThreads
    /\ mainPc' = "done"
    /\ UNCHANGED <<labFn, bpc, held, labVal, tpc, tIter, locks, labReaders, labWriter,
                   nReaders, nReads, labJoin, labResult>>
    /\ UNCHANGED notLab

\* Scenario C: println!("Final value: {}", *data.read().unwrap()) after the joins.
LabFinal ==
    /\ labFn \in ScenarioC
    /\ mainPc = "join"
    /\ labJoin = NThreads
    /\ labWriter = 0
    /\ labResult' = <<labVal>>
    /\ mainPc' = "done"
    /\ UNCHANGED <<labFn, bpc, held, labVal, tpc, tIter, locks, labReaders, labWriter,
                   nReaders, nReads, labJoin>>
    /\ UNCHANGED notLab

\* ---- scenario B: one thread, one mutex ----

\* demo_deadlock_nested with the drop(guard) line left out.
BProgNoDrop(fn) ==
    CASE fn = "b_deadlock" -> <<"lock", "print", "print", "lock", "print", "return">>
      [] fn = "b_nested" ->
             <<"lock", "add10", "print", "lock", "add1", "print", "unlock", "return">>
      [] fn = "b_drop_early" ->
             <<"lock", "add10", "print", "unlock", "lock", "add1", "print", "unlock",
               "print", "return">>
      [] fn = "b_pass_guard" ->
             <<"lock", "add10", "print", "add1", "print", "print", "return">>
      [] OTHER -> <<>>

\* The statements the calling thread runs, in order, the called inner function
\* inlined: "lock" is data.lock().unwrap(), "unlock" the drop of the guard
\* (drop(guard), end of a block, return of the inner function), "add10" and
\* "add1" are `*guard += 10` and `*guard += 1`, "return" is the end of the
\* function, where a guard still in scope is dropped.
BProg(fn) ==
    CASE fn = "b_deadlock" -> <<"lock", "print", "print", "lock", "print", "return">>
      [] fn = "b_nested" ->
             <<"lock", "add10", "print", "unlock", "lock", "add1", "print", "unlock",
               "return">>
      [] fn = "b_drop_early" ->
             <<"lock", "add10", "print", "unlock", "lock", "add1", "print", "unlock",
               "print", "return">>
      [] fn = "b_pass_guard" ->
             <<"lock", "add10", "print", "add1", "print", "print", "return">>
      [] OTHER -> <<>>

\* The statement the calling thread is at.
BStmt == IF mainPc = "run" /\ bpc \in DOMAIN BProg(labFn) THEN BProg(labFn)[bpc] ELSE "none"

\* A lock() that returns a second guard to the thread that holds the mutex.
BLockReentrant ==
    /\ BStmt = "lock"
    /\ held' = TRUE
    /\ bpc' = bpc + 1
    /\ UNCHANGED <<labFn, mainPc, labVal, tpc, tIter, locks, labReaders, labWriter,
                   nReaders, nReads, labJoin, labResult>>
    /\ UNCHANGED notLab

\* data.lock().unwrap(): blocks while the mutex is held, by whichever thread.
BLock ==
    /\ BStmt = "lock"
    /\ ~held
    /\ held' = TRUE
    /\ bpc' = bpc + 1
    /\ UNCHANGED <<labFn, mainPc, labVal, tpc, tIter, locks, labReaders, labWriter,
                   nReaders, nReads, labJoin, labResult>>
    /\ UNCHANGED notLab

\* The guard is dropped: drop(guard), the end of its block, or the return of
\* the inner function.
BUnlock ==
    /\ BStmt = "unlock"
    /\ held' = FALSE
    /\ bpc' = bpc + 1
    /\ UNCHANGED <<labFn, mainPc, labVal, tpc, tIter, locks, labReaders, labWriter,
                   nReaders, nReads, labJoin, labResult>>
    /\ UNCHANGED notLab

\* *guard += 10, or *guard += 1 in the inner function.
BAdd ==
    /\ BStmt \in {"add10", "add1"}
    /\ labVal' = labVal + (IF BStmt = "add10" THEN 10 ELSE 1)
    /\ bpc' = bpc + 1
    /\ UNCHANGED <<labFn, mainPc, held, tpc, tIter, locks, labReaders, labWriter, nReaders,
                   nReads, labJoin, labResult>>
    /\ UNCHANGED notLab

\* println!(..)
BPrint ==
    /\ BStmt = "print"
    /\ bpc' = bpc + 1
    /\ UNCHANGED <<labFn, mainPc, held, labVal, tpc, tIter, locks, labReaders, labWriter,
                   nReaders, nReads, labJoin, labResult>>
    /\ UNCHANGED notLab

\* The function returns; a guard still in scope is dropped.
BReturn ==
    /\ BStmt = "return"
    /\ held' = FALSE
    /\ mainPc' = "done"
    /\ UNCHANGED <<labFn, bpc, labVal, tpc, tIter, locks, labReaders, labWriter, nReaders,
                   nReads, labJoin, labResult>>
    /\ UNCHANGED notLab

LabMainStep ==
    \/ LabSpawn
    \/ LabJoin
    \/ LabDone
    \/ LabFinal
    \/ BLock
    \/ BUnlock
    \/ BAdd
    \/ BPrint
    \/ BReturn

LabNext ==
    \/ \E t \in 1..(MaxThreads + 1) : LabThreadStep(t)
    \/ LabMainStep

LabSpec == LabInit /\ [][LabNext]_vars

\* Fair scheduling: every thread that can take a step (a lock() whose lock is
\* free included) eventually takes one.
LabFairSpec ==
    /\ LabSpec
    /\ \A t \in 1..(MaxThreads + 1) : WF_vars(LabThreadStep(t))
    /\ WF_vars(LabMainStep)

\* Two threads each hold the mutex the other is waiting for.
CircularWait ==
    \E t, u \in LabThreads :
        /\ t # u
        /\ tpc[t] = "second" /\ tpc[u] = "second"
        /\ locks[LockOrder(labFn, t)[2]] = u
        /\ locks[LockOrder(labFn, u)[2]] = t

\* Thread t of scenario A has acquired both locks.
HasBoth(t) == t \in LabThreads /\ tpc[t] \in {"both", "release", "done"}

\* C24: in demo_fixed, where both threads take lock A before lock B, no
\* interleaving deadlocks: both threads acquire both locks, both joins return
\* and the function reaches its final "Done!".
C24_FixedOrderNoDeadlock ==
    /\ [](labFn = "a_fixed" => ~CircularWait)
    /\ \A t \in 1..2 : (labFn = "a_fixed") ~> HasBoth(t)
    /\ (labFn = "a_fixed") ~> (mainPc = "done" /\ labJoin = 2)

C24_Witness ==
    /\ labFn = "a_fixed"
    /\ mainPc = "done"
    /\ \A t \in 1..2 : tpc[t] = "done"

\* C25: in demo_deadlock the two threads deadlock and the function never
\* reaches its final "Done!".
C25_OpposedOrderNeverDone ==
    labFn = "a_deadlock" => mainPc # "done"

\* C26: std::sync::Mutex is not reentrant: in scenario B's demo_deadlock the
\* thread that locks the mutex again while holding the first guard blocks on
\* itself forever (it takes no further step), and the statement after the
\* second lock (statement 5) is never executed.
C26_SecondLockBlocksForever ==
    /\ [](labFn = "b_deadlock" => (bpc <= 4 /\ mainPc = "run"))
    /\ [][(labFn = "b_deadlock" /\ bpc = 4) => (held /\ UNCHANGED labVars)]_vars

C26_Witness ==
    /\ labFn = "b_deadlock"
    /\ bpc = 4
    /\ held
    /\ BStmt = "lock"

\* Scenario B's non-deadlocking variants.
BFixed == {"b_nested", "b_drop_early", "b_pass_guard"}

\* C27: scenario B's non-deadlocking variants always terminate with the counter
\* equal to 11, and in none of them is the mutex requested while the thread
\* already holds it.
C27_VariantsEndWithEleven ==
    /\ []((labFn \in BFixed /\ mainPc = "done") => (labVal = 11 /\ ~held))
    /\ []((labFn \in BFixed /\ BStmt = "lock") => ~held)
    /\ (labFn \in BFixed) ~> (mainPc = "done")

C27_Witness ==
    /\ labFn = "b_nested"
    /\ mainPc = "done"
    /\ labVal = 11

\* The writer of scenario C has been given the write lock.
WriterAcquired ==
    /\ nReaders + 1 \in LabThreads
    /\ tpc[nReaders + 1] \in {"add", "wdrop", "done"}

\* C28: in demo_potential_starvation the writer is not starved: it eventually
\* acquires the write lock, every thread terminates, the final value is exactly
\* 1, and no reader holds the read lock while the writer holds the write lock.
C28_WriterNotStarved ==
    /\ [](labWriter # 0 => labReaders = {})
    /\ []((labFn \in ScenarioC /\ mainPc = "done") =>
              (labResult = <<1>> /\ \A t \in LabThreads : tpc[t] = "done"))
    /\ (labFn \in ScenarioC) ~> WriterAcquired
    /\ (labFn \in ScenarioC) ~> (mainPc = "done")

C28_Witness ==
    /\ labFn \in ScenarioC
    /\ mainPc = "done"
    /\ nReaders >= 2 /\ nReads >= 2
    /\ labResult = <<1>>

----------------------------------------------------------------------------
\* p10_event_bus: one caller subscribing counting handlers and publishing
\* events (tests::test_multiple_handlers, tests::test_basic_subscribe_publish).

BusInit ==
    /\ PoolIdle /\ CntIdle /\ LogIdle /\ CacheIdle /\ LabIdle
    /\ handlers = <<>>
    /\ busPc = "idle"
    /\ pubIdx = 0
    /\ event = 0
    /\ published = 0
    /\ calls = <<>>
    /\ received = <<>>
    /\ subAt = <<>>
    /\ busCounter = 0

\* A subscribe that replaces the handlers by the new one.
SubscribeReplace ==
    /\ busPc = "idle"
    /\ Len(handlers) < MaxHandlers
    /\ handlers' = <<Len(calls) + 1>>
    /\ calls' = Append(calls, 0)
    /\ received' = Append(received, <<>>)
    /\ subAt' = Append(subAt, published)
    /\ UNCHANGED <<busPc, pubIdx, event, published, busCounter>>
    /\ UNCHANGED notBus

\* bus.subscribe(handler): under the write guard, handlers.push(Arc::new(handler)).
Subscribe ==
    /\ busPc = "idle"
    /\ Len(handlers) < MaxHandlers
    /\ handlers' = Append(handlers, Len(calls) + 1)
    /\ calls' = Append(calls, 0)
    /\ received' = Append(received, <<>>)
    /\ subAt' = Append(subAt, published)
    /\ UNCHANGED <<busPc, pubIdx, event, published, busCounter>>
    /\ UNCHANGED notBus

\* bus.publish(&i): the read guard is taken and the loop over handlers.iter()
\* begins; the test publishes i = 0, 1, 2, ..
PublishBegin ==
    /\ busPc = "idle"
    /\ published < MaxEvents
    /\ event' = published
    /\ pubIdx' = 1
    /\ busPc' = "publishing"
    /\ UNCHANGED <<handlers, published, calls, received, subAt, busCounter>>
    /\ UNCHANGED notBus

\* handler(event): the handler the loop is at is called with the event and
\* increments the counter.
PublishCall ==
    /\ busPc = "publishing"
    /\ pubIdx <= Len(handlers)
    /\ calls' = [calls EXCEPT ![handlers[pubIdx]] = @ + 1]
    /\ received' = [received EXCEPT ![handlers[pubIdx]] = Append(@, event)]
    /\ busCounter' = busCounter + 1
    /\ pubIdx' = pubIdx + 1
    /\ UNCHANGED <<handlers, busPc, event, published, subAt>>
    /\ UNCHANGED notBus

\* The loop is over: the read guard is dropped and publish returns.
PublishEnd ==
    /\ busPc = "publishing"
    /\ pubIdx > Len(handlers)
    /\ published' = published + 1
    /\ busPc' = "idle"
    /\ UNCHANGED <<handlers, pubIdx, event, calls, received, subAt, busCounter>>
    /\ UNCHANGED notBus

BusNext ==
    \/ Subscribe
    \/ PublishBegin
    \/ PublishCall
    \/ PublishEnd

BusSpec == BusInit /\ [][BusNext]_vars

\* The events published since handler h was subscribed, in order.
EventsSince(h) == [i \in 1..(published - subAt[h]) |-> subAt[h] + i - 1]

\* C29: publish invokes every handler subscribed at that moment exactly once
\* with the published event; with H handlers subscribed and E events published
\* afterwards, the handlers are invoked H*E times in total.
C29_EveryHandlerOncePerEvent ==
    /\ busPc = "idle" =>
           \A h \in DOMAIN calls :
               /\ calls[h] = published - subAt[h]
               /\ received[h] = EventsSince(h)
    /\ busPc = "publishing" =>
           \A h \in DOMAIN calls :
               calls[h] = published - subAt[h]
                          + (IF \E i \in 1..(pubIdx - 1) : handlers[i] = h THEN 1 ELSE 0)
    /\ (busPc = "idle" /\ \A h \in DOMAIN subAt : subAt[h] = 0) =>
           busCounter = Len(handlers) * published

C29_Witness ==
    /\ busPc = "idle"
    /\ Len(handlers) = MaxHandlers
    /\ \A h \in DOMAIN subAt : subAt[h] = 0
    /\ published >= 2
    /\ busCounter = Len(handlers) * published

====
